---- MODULE Spec2Model ----
(***************************************************************************)
(* A model of the audio_effects graph runtime: the sample Buffer           *)
(* (shared/src/buffer.rs), the Input/Output blocks and their connectors    *)
(* (shared/src/block.rs), the Sine and FOut processors (effects/src) and   *)
(* the Unit scheduler (rack/src/unit.rs).                                  *)
(*                                                                         *)
(* Processor, block and slot indices are 0-based as in the source; the     *)
(* sequences that store them are 1-based, so element i lives at i + 1.     *)
(***************************************************************************)
EXTENDS Integers, Sequences, FiniteSets, TLC

(***************************************************************************)
(* Bounds.  BUFFER_LEN (256 in the source) and BLOCK_LEN (8 in the source) *)
(* are scaled down; SMPLRT stands for the 44100.0 that Sine::reset writes  *)
(* to the sample-rate input.                                               *)
(***************************************************************************)
BUFFER_LEN == 2
BLOCK_LEN == 2
SMPLRT == 4
\* processors a Unit may hold under Spec
MaxProcs == 2
\* processors a Unit may hold under SpecTurns
MaxTurnProcs == 4
\* bound connections in the whole Unit under SpecTurns
MaxTurnCons == 4
\* highest input block index a connect/disconnect argument names under Spec
MaxInBlock == 1
\* highest input block index a connect argument names under SpecTurns
MaxTurnInBlock == 0
\* cap on the length of the forward and backward queues
MaxQueue == 2
\* calls made on a Unit under Spec
MaxCalls == 8
\* processors a Unit may hold under SpecStream
MaxStreamProcs == 5
\* bound connections in the whole Unit under SpecStream
MaxStreamCons == 5
\* highest input block index a connect argument names under SpecStream
MaxStreamInBlock == 1

\* SpecDrain: processors, connections, the highest input block connected to,
\* and the calls of step functions made before drain_and_stop
MaxDrainProcs == 3
MaxDrainCons == 3
MaxDrainInBlock == 0
MaxDrainCalls == 4
\* calls made on the block under SpecBlock
MaxBlockOps == 4
\* calls made on the Buffer under SpecBuffer
MaxBufferOps == 5
\* processors and calls under SpecRewire
MaxRewireProcs == 3
MaxRewireCalls == 14
\* calls made on the Stopped Unit under SpecBuild before start
MaxBuildCalls == 6
\* SpecAdmit: processors, calls made before start, calls in all
MaxAdmitProcs == 3
MaxAdmitBuild == 7
MaxAdmitCalls == 16
\* processors and bound connections under SpecRestart
MaxRestartProcs == 3
MaxRestartCons == 2
\* SpecDistribute: buffers in the slice, calls of distribute
NumBufs == 3
MaxDistOps == 2

Min(a, b) == IF a < b THEN a ELSE b

Max(a, b) == IF a > b THEN a ELSE b

\* full_cnt and empty_cnt are usize counters that the Unit only increments,
\* resets to 0 and compares for equality with num_cons, and num_cons never
\* exceeds BLOCK_LEN: every value above BLOCK_LEN behaves alike, and the model
\* keeps one such value, CntTop, for all of them.
CntTop == BLOCK_LEN + 1

(***************************************************************************)
(* Buffer (shared/src/buffer.rs)                                           *)
(***************************************************************************)
\* I::default() for the sample type
ZeroSample == 0

BufferDefault ==
  [rdpos |-> 0, wrpos |-> 0, buf |-> [i \in 1..BUFFER_LEN |-> ZeroSample]]

Buffer_empty(b) == b.rdpos = b.wrpos

Buffer_full(b) == b.wrpos = BUFFER_LEN

\* next() returning the zero sample whenever nothing is left to read
Buffer_next_val_zero(b) ==
  IF b.rdpos = b.wrpos THEN ZeroSample ELSE b.buf[b.rdpos + 1]

\* the sample next() returns
Buffer_next_val(b) ==
  IF b.rdpos = b.wrpos
  THEN IF b.rdpos = 0 THEN ZeroSample ELSE b.buf[(b.rdpos - 1) + 1]
  ELSE b.buf[b.rdpos + 1]

\* next() advancing the read cursor without its test against wrpos
Buffer_next_nocheck(b) == [b EXCEPT !.rdpos = b.rdpos + 1]

\* the buffer next() leaves behind
Buffer_next(b) ==
  IF b.rdpos = b.wrpos THEN b ELSE [b EXCEPT !.rdpos = b.rdpos + 1]

Buffer_rewind(b) == [b EXCEPT !.rdpos = 0]

\* put() dropping the sample when the buffer is full
Buffer_put_drop(b, val) ==
  IF Buffer_full(b)
  THEN b
  ELSE [b EXCEPT !.buf[b.wrpos + 1] = val, !.wrpos = b.wrpos + 1]

Buffer_put(b, val) ==
  IF Buffer_full(b)
  THEN [b EXCEPT !.buf[(BUFFER_LEN - 1) + 1] = val]
  ELSE [b EXCEPT !.buf[b.wrpos + 1] = val, !.wrpos = b.wrpos + 1]

\* fill() writing the slots and leaving the cursors where they were
Buffer_fill_nocursor(b, val) ==
  [b EXCEPT !.buf = [i \in 1..BUFFER_LEN |-> val]]

Buffer_fill(b, val) ==
  [rdpos |-> 0, wrpos |-> BUFFER_LEN, buf |-> [i \in 1..BUFFER_LEN |-> val]]

\* reset() clearing the write cursor only
Buffer_reset_wronly(b) == [b EXCEPT !.wrpos = 0]

Buffer_reset(b) == [b EXCEPT !.rdpos = 0, !.wrpos = 0]

\* copy_from() taking the cursors of the source along with its samples
Buffer_copy_from_cursors(b, from) ==
  [rdpos |-> from.rdpos, wrpos |-> from.wrpos, buf |-> from.buf]

Buffer_copy_from(b, from) ==
  [rdpos |-> 0, wrpos |-> BUFFER_LEN, buf |-> from.buf]

(***************************************************************************)
(* Connector, Connection, EndPoint (shared::connector, used by block.rs    *)
(* and unit.rs)                                                            *)
(***************************************************************************)
EndPoint(p, b, c) == [proc |-> p, block |-> b, conn |-> c]

Connection(f, t) == [from |-> f, to |-> t]

Unconnected == [tag |-> "Unconnected"]

ConnectedUsing(con) == [tag |-> "ConnectedUsing", con |-> con]

IsConnected(connector) == connector.tag = "ConnectedUsing"

\* the closures passed to distribute: |_, b| b and |d, s| d + s
Fs == {"src", "sum"}

ApplyF(f, d, s) == IF f = "src" THEN s ELSE d + s

\* distribute() combining every destination with the samples its source had
\* before the call
distribute_snapshot(bs, map, f) ==
  [d \in 1..Len(bs) |->
     LET srcidx == map[((d - 1) % Len(map)) + 1]
     IN IF d - 1 # srcidx
        THEN [rdpos |-> 0, wrpos |-> BUFFER_LEN,
              buf |-> [i \in 1..BUFFER_LEN |->
                         ApplyF(f, bs[d].buf[i], bs[srcidx + 1].buf[i])]]
        ELSE bs[d]]

\* the loop of distribute() from dstidx on
RECURSIVE distribute_loop(_, _, _, _)
distribute_loop(bs, map, f, dstidx) ==
  IF dstidx >= Len(bs) THEN bs
  ELSE LET srcidx == map[(dstidx % Len(map)) + 1]
       IN distribute_loop(
            IF dstidx # srcidx
            THEN [bs EXCEPT ![dstidx + 1] =
                    [rdpos |-> 0, wrpos |-> BUFFER_LEN,
                     buf |-> [i \in 1..BUFFER_LEN |->
                                ApplyF(f, bs[dstidx + 1].buf[i],
                                       bs[srcidx + 1].buf[i])]]]
            ELSE bs,
            map, f, dstidx + 1)

distribute(bs, map, f) == distribute_loop(bs, map, f, 0)

(***************************************************************************)
(* Block, Input, Output (shared/src/block.rs)                              *)
(***************************************************************************)
BlockDefault ==
  [bufs |-> [i \in 1..BLOCK_LEN |-> BufferDefault],
   conns |-> [i \in 1..BLOCK_LEN |-> Unconnected],
   num_cons |-> 0]

InputDefault == [b |-> BlockDefault, full_cnt |-> 0]

OutputDefault == [b |-> BlockDefault, empty_cnt |-> 0]

\* Connectors::connect binding whatever the slot holds
Connectors_connect_ok_always(blk, con) == con.from.conn < BLOCK_LEN

\* Connectors::connect: Ok exactly when the slot con.from.conn is Unconnected
Connectors_connect_ok(blk, con) == ~IsConnected(blk.b.conns[con.from.conn + 1])

\* mutant: the slot stores the Connection from the peer's perspective
Connectors_connect_swapped(blk, con) ==
  IF Connectors_connect_ok(blk, con)
  THEN [blk EXCEPT !.b.conns[con.from.conn + 1] =
                     ConnectedUsing(Connection(con.to, con.from)),
                   !.b.num_cons = blk.b.num_cons + 1]
  ELSE blk

Connectors_connect(blk, con) ==
  IF Connectors_connect_ok(blk, con)
  THEN [blk EXCEPT !.b.conns[con.from.conn + 1] = ConnectedUsing(con),
                   !.b.num_cons = blk.b.num_cons + 1]
  ELSE blk

\* Connectors::disconnect: Ok exactly when the slot idx is ConnectedUsing(_)
Connectors_disconnect_ok(blk, idx) == IsConnected(blk.b.conns[idx + 1])

\* Connectors::disconnect decrementing num_cons outside its test of the slot
Connectors_disconnect_alwaysdec(blk, idx) ==
  IF Connectors_disconnect_ok(blk, idx)
  THEN [blk EXCEPT !.b.conns[idx + 1] = Unconnected,
                   !.b.num_cons = blk.b.num_cons - 1]
  ELSE [blk EXCEPT !.b.num_cons = blk.b.num_cons - 1]

\* mutant: the slot is unbound but num_cons is not decremented
Connectors_disconnect_nodec(blk, idx) ==
  IF Connectors_disconnect_ok(blk, idx)
  THEN [blk EXCEPT !.b.conns[idx + 1] = Unconnected]
  ELSE blk

Connectors_disconnect(blk, idx) ==
  IF Connectors_disconnect_ok(blk, idx)
  THEN [blk EXCEPT !.b.conns[idx + 1] = Unconnected,
                   !.b.num_cons = blk.b.num_cons - 1]
  ELSE blk

inc_full_cnt(blk) == [blk EXCEPT !.full_cnt = Min(blk.full_cnt + 1, CntTop)]

rst_full_cnt(blk) == [blk EXCEPT !.full_cnt = 0]

inc_empty_cnt(blk) == [blk EXCEPT !.empty_cnt = Min(blk.empty_cnt + 1, CntTop)]

rst_empty_cnt(blk) == [blk EXCEPT !.empty_cnt = 0]

\* Buffers::fill
Buffers_fill(blk, val) ==
  [blk EXCEPT !.b.bufs = [i \in 1..BLOCK_LEN |-> Buffer_fill(blk.b.bufs[i], val)]]

\* Buffers::fill_split
Buffers_fill_split(blk, idx, l_val, r_val) ==
  [blk EXCEPT !.b.bufs =
     [i \in 1..BLOCK_LEN |->
        Buffer_fill(blk.b.bufs[i], IF i - 1 < idx THEN l_val ELSE r_val)]]

\* Buffers::put
Buffers_put(blk, val) ==
  [blk EXCEPT !.b.bufs = [i \in 1..BLOCK_LEN |-> Buffer_put(blk.b.bufs[i], val)]]

RECURSIVE SumSeq(_)
SumSeq(s) == IF s = <<>> THEN 0 ELSE Head(s) + SumSeq(Tail(s))

\* Buffers::sum_next: the sum it returns and the block it leaves behind
Buffers_sum_next_val(blk) ==
  SumSeq([i \in 1..BLOCK_LEN |-> Buffer_next_val(blk.b.bufs[i])])

Buffers_sum_next(blk) ==
  [blk EXCEPT !.b.bufs = [i \in 1..BLOCK_LEN |-> Buffer_next(blk.b.bufs[i])]]

(***************************************************************************)
(* Processors (effects/src/sine.rs, effects/src/fout.rs).  A processor is  *)
(* [kind, cnt, inputs, outputs]; FOut has no cnt of its own (kept 0) and   *)
(* its file is taken to be open, as examples/sinefun.rs leaves it.         *)
(***************************************************************************)
Kinds == {"Sine", "FOut"}

num_inputs(kind) == IF kind = "Sine" THEN 4 ELSE 1

num_outputs(kind) == IF kind = "Sine" THEN 1 ELSE 0

\* Blocks::map_outputs is overridden by Sine; FOut keeps the trait default,
\* which returns false without visiting anything
OverridesMapOutputs(kind) == kind = "Sine"

\* X::default() followed by reset(), the state in which the examples add a
\* processor to the Unit
Sine_reset ==
  [kind |-> "Sine", cnt |-> 0,
   inputs |-> << Buffers_fill_split(InputDefault, 1, 440, 0),
                 Buffers_fill_split(InputDefault, 1, SMPLRT, 0),
                 Buffers_fill_split(InputDefault, 1, 1, 0),
                 Buffers_fill(InputDefault, 0) >>,
   outputs |-> << OutputDefault >>]

FOut_reset ==
  [kind |-> "FOut", cnt |-> 0, inputs |-> << InputDefault >>, outputs |-> << >>]

NewProcessor(kind) == IF kind = "Sine" THEN Sine_reset ELSE FOut_reset

\* One iteration of the sample loop of Sine::process.  The sample written is
\* a function of the four input sums and of cnt; the model keeps cnt exactly
\* and abstracts the written sample to the value of cnt.
Sine_process_one(p) ==
  LET smplrt == Buffers_sum_next_val(p.inputs[2])
      c1 == p.cnt + 1
      c2 == IF c1 > smplrt THEN 1 ELSE c1
  IN [p EXCEPT !.inputs = [i \in 1..4 |-> Buffers_sum_next(p.inputs[i])],
               !.cnt = c2,
               !.outputs[1] = Buffers_put(p.outputs[1], c2)]

FOut_process_one(p) ==
  [p EXCEPT !.inputs[1] = Buffers_sum_next(p.inputs[1])]

RECURSIVE ProcessLoop(_, _)
ProcessLoop(p, n) ==
  IF n = 0 THEN p
  ELSE ProcessLoop(IF p.kind = "Sine" THEN Sine_process_one(p)
                                       ELSE FOut_process_one(p), n - 1)

\* Process::process
Process(p) == ProcessLoop(p, BUFFER_LEN)

\* Blocks::map_inputs with a visitor that only tests its block: f[i] is what
\* the visitor returns on input block i, and the chain of ifs returns true
\* exactly when every block passes
map_inputs(p, f) == \A i \in 1..Len(p.inputs) : f[i]

\* Blocks::map_outputs with a visitor that only tests its block
map_outputs(p, f) ==
  /\ OverridesMapOutputs(p.kind)
  /\ \A i \in 1..Len(p.outputs) : f[i]

\* the bound connections of a list of connectors, in slot order
RECURSIVE BoundCons(_)
BoundCons(conns) ==
  IF conns = <<>> THEN <<>>
  ELSE (IF IsConnected(Head(conns)) THEN <<Head(conns).con>> ELSE <<>>)
       \o BoundCons(Tail(conns))

RECURSIVE BlocksCons(_)
BlocksCons(blks) ==
  IF blks = <<>> THEN <<>>
  ELSE BoundCons(Head(blks).b.conns) \o BlocksCons(Tail(blks))

\* what map_outputs collects in process_next and new_back_dispatch
OutputCons(p) == IF OverridesMapOutputs(p.kind) THEN BlocksCons(p.outputs) ELSE <<>>

\* what map_inputs visits in new_back_dispatch
InputCons(p) == BlocksCons(p.inputs)

(***************************************************************************)
(* Unit (rack/src/unit.rs)                                                 *)
(***************************************************************************)
VARIABLES
  procs,      \* Unit.procs: the processors, in insertion order
  next,       \* Unit.next: ids of the processors ready to run (FIFO)
  forward,    \* Unit.forward: Dispatch jobs [cons, proc] (FIFO)
  backward,   \* Unit.backward: Dispatch jobs [cons, proc] (FIFO)
  start,      \* Unit.start: ids of the start nodes
  state,      \* Unit.state: "Stopped" or "Started"
  pc,         \* "idle", or "draining" inside the loop of drain_and_stop
  turn,       \* position of the driver loop of the examples: 0 before
              \* process_next, 1 before dispatch_next_forward, 2 before
              \* dispatch_backward; while pc = "draining" in SpecDrain, the
              \* position in the loop of drain_and_stop: 0 at its test, 1
              \* before dispatch_next_forward
  calls,      \* the number of calls made on the Unit so far (Spec, SpecDrain)
  last,       \* the last call and the return it left through: [op, ret]
  delivered,  \* history: delivered[p+1][b+1][c+1] counts (0, 1, 2 for two or
              \* more) the forward copies into input slot (p, b, c) since p's
              \* full_cnt were last reset
  admits,     \* history: the admissions of the last dispatch_next_forward,
              \* each [proc, dl]: the consumer pushed onto next and its
              \* delivered counts at that moment
  acyclic,    \* history: no connect has closed a cycle of connections so far
  buffer,     \* SpecBuffer: the Buffer the calls are made on
  other,      \* SpecBuffer: the Buffer passed to copy_from
  block,      \* SpecBlock: the Input block the calls are made on
  bufs,       \* SpecDistribute: the slice of Buffers distribute is called on
  ops         \* SpecBuffer, SpecBlock: history, the calls made so far, each
              \* [op, val].  On a Buffer val is the sample passed to put and
              \* fill, the sample returned by next, -1 for the other calls;
              \* on a block val is the return of connect and disconnect;
              \* for distribute val is <<map, f>>

\* the variables of the Unit and of the histories kept about it
unitvars == <<procs, next, forward, backward, start, state, pc, turn, calls, last,
              delivered, admits, acyclic>>

\* the variables of SpecBuffer and SpecBlock
bufvars == <<buffer, other, block, bufs, ops>>

vars == <<procs, next, forward, backward, start, state, pc, turn, calls, last,
          delivered, admits, acyclic, buffer, other, block, bufs, ops>>

\* the part of the Unit the step functions work on
U == [procs |-> procs, next |-> next, forward |-> forward,
      backward |-> backward, start |-> start, delivered |-> delivered,
      admits |-> admits]

SetU(u) ==
  /\ procs' = u.procs
  /\ next' = u.next
  /\ forward' = u.forward
  /\ backward' = u.backward
  /\ start' = u.start
  /\ delivered' = u.delivered
  /\ admits' = u.admits

Dispatch(cons, proc) == [cons |-> cons, proc |-> proc]

started == state = "Started"

\* arg: the processor process_next ran, -1 when none or another call
RetArg(op, ret, arg) == [op |-> op, ret |-> ret, arg |-> arg]

Ret(op, ret) == RetArg(op, ret, -1)

\* a panic aborts the program: nothing runs afterwards.  "panic" is an index
\* out of range (get_refs, Blocks::input / output, a slot index), "panic:
\* rollback" the panic!() of Unit::connect.
Panicked == last.ret \in {"panic", "panic: rollback"}

\* Iterator::position
RECURSIVE position(_, _, _)
position(s, x, i) ==
  IF i > Len(s) THEN 0 ELSE IF s[i] = x THEN i ELSE position(s, x, i + 1)

Contains(s, x) == position(s, x, 1) # 0

\* Vec::remove / VecDeque::remove at a 1-based position
RemoveAt(s, i) == SubSeq(s, 1, i - 1) \o SubSeq(s, i + 1, Len(s))

\* a helper that hands out the same element twice instead of panicking
get_refs_alias(n, idx1, idx2) == idx1 < n /\ idx2 < n

\* get_refs panics (slice index out of range) unless the two indices are
\* distinct and inside the slice
get_refs_ok(n, idx1, idx2) ==
  IF idx1 < idx2
  THEN idx2 <= n /\ idx1 < idx2 /\ 0 < n - idx2
  ELSE idx1 <= n /\ 0 < n - idx1 /\ idx2 < idx1

ZeroDelivered(p) == [b \in 1..Len(p.inputs) |-> [c \in 1..BLOCK_LEN |-> 0]]

\* mutant: a processor that gained an input stays in the start list
update_start_list_noremove(u, p_idx) ==
  LET add_flg == map_inputs(u.procs[p_idx + 1],
                           [i \in 1..Len(u.procs[p_idx + 1].inputs) |->
                              ~(u.procs[p_idx + 1].inputs[i].b.num_cons > 0)])
  IN IF add_flg /\ position(u.start, p_idx, 1) = 0
     THEN [u EXCEPT !.start = Append(u.start, p_idx),
                    !.next = Append(u.next, p_idx)]
     ELSE u

\* mutant: a processor that gained an input leaves the start list and stays
\* in the ready queue
update_start_list_keepnext(u, p_idx) ==
  LET add_flg == map_inputs(u.procs[p_idx + 1],
                           [i \in 1..Len(u.procs[p_idx + 1].inputs) |->
                              ~(u.procs[p_idx + 1].inputs[i].b.num_cons > 0)])
      s_idx == position(u.start, p_idx, 1)
  IN IF add_flg
     THEN IF s_idx = 0
          THEN [u EXCEPT !.start = Append(u.start, p_idx),
                         !.next = Append(u.next, p_idx)]
          ELSE u
     ELSE IF s_idx # 0
          THEN [u EXCEPT !.start = RemoveAt(u.start, s_idx)]
          ELSE u

\* Unit::update_start_list
update_start_list(u, p_idx) ==
  LET add_flg == map_inputs(u.procs[p_idx + 1],
                           [i \in 1..Len(u.procs[p_idx + 1].inputs) |->
                              ~(u.procs[p_idx + 1].inputs[i].b.num_cons > 0)])
      s_idx == position(u.start, p_idx, 1)
      n_idx == position(u.next, p_idx, 1)
  IN IF add_flg
     THEN IF s_idx = 0
          THEN [u EXCEPT !.start = Append(u.start, p_idx),
                         !.next = Append(u.next, p_idx)]
          ELSE u
     ELSE IF s_idx # 0
          THEN [u EXCEPT !.start = RemoveAt(u.start, s_idx),
                         !.next = IF n_idx # 0 THEN RemoveAt(u.next, n_idx)
                                               ELSE u.next]
          ELSE u

\* mutant: the input slot is compared with con instead of its mirror
connection_exists_unmirrored(u, con) ==
  LET c_from == u.procs[con.from.proc + 1].outputs[con.from.block + 1]
                  .b.conns[con.from.conn + 1]
  IN /\ IsConnected(c_from)
     /\ c_from.con.from = con.from
     /\ c_from.con.to = con.to
     /\ LET c_to == u.procs[con.to.proc + 1].inputs[con.to.block + 1]
                      .b.conns[con.to.conn + 1]
        IN /\ IsConnected(c_to)
           /\ c_to.con.from = con.from
           /\ c_to.con.to = con.to

\* Unit::connection_exists (called only with indices that do not panic)
connection_exists(u, con) ==
  LET c_from == u.procs[con.from.proc + 1].outputs[con.from.block + 1]
                  .b.conns[con.from.conn + 1]
  IN /\ IsConnected(c_from)
     /\ c_from.con.from = con.from
     /\ c_from.con.to = con.to
     /\ LET c_to == u.procs[con.to.proc + 1].inputs[con.to.block + 1]
                      .b.conns[con.to.conn + 1]
        IN /\ IsConnected(c_to)
           /\ c_to.con.from = con.to
           /\ c_to.con.to = con.from

\* Unit::new_back_dispatch: the feeders of p_fwd_idx, each once, in the order
\* map_inputs meets them, then every bound output connection of each feeder
RECURSIVE Unique(_, _)
Unique(cons, acc) ==
  IF cons = <<>> THEN acc
  ELSE Unique(Tail(cons),
              IF Contains(acc, Head(cons).to.proc) THEN acc
              ELSE Append(acc, Head(cons).to.proc))

RECURSIVE FeederCons(_, _)
FeederCons(ps, bk_procs) ==
  IF bk_procs = <<>> THEN <<>>
  ELSE (IF Head(bk_procs) < Len(ps) THEN OutputCons(ps[Head(bk_procs) + 1]) ELSE <<>>)
       \o FeederCons(ps, Tail(bk_procs))

\* Unit::new_back_dispatch pushing a feeder once per bound input slot
new_back_dispatch_nodedup(ps, p_fwd_idx) ==
  LET ins == IF p_fwd_idx < Len(ps) THEN InputCons(ps[p_fwd_idx + 1]) ELSE <<>>
      bk_procs == [i \in 1..Len(ins) |-> ins[i].to.proc]
  IN Dispatch(FeederCons(ps, bk_procs), p_fwd_idx)

new_back_dispatch(ps, p_fwd_idx) ==
  LET bk_procs == IF p_fwd_idx < Len(ps)
                  THEN Unique(InputCons(ps[p_fwd_idx + 1]), <<>>)
                  ELSE <<>>
  IN Dispatch(FeederCons(ps, bk_procs), p_fwd_idx)

\* Unit::process_next queueing its dispatch outside the test of the ready queue
process_next_pushalways(u) ==
  IF u.next = <<>> THEN [u EXCEPT !.forward = Append(u.forward, Dispatch(<<>>, 0))]
  ELSE LET p_idx == Head(u.next)
           proc == Process(u.procs[p_idx + 1])
       IN [u EXCEPT !.next = Tail(u.next),
                    !.procs[p_idx + 1] = proc,
                    !.forward = Append(u.forward, Dispatch(OutputCons(proc), p_idx))]

\* Unit::process_next calling the compute step of the processor twice
process_next_twice(u) ==
  IF u.next = <<>> THEN u
  ELSE LET p_idx == Head(u.next)
           proc == Process(Process(u.procs[p_idx + 1]))
       IN [u EXCEPT !.next = Tail(u.next),
                    !.procs[p_idx + 1] = proc,
                    !.forward = Append(u.forward, Dispatch(OutputCons(proc), p_idx))]

\* Unit::process_next taking the processor from the back of the ready queue
process_next_lifo(u) ==
  IF u.next = <<>> THEN u
  ELSE LET p_idx == u.next[Len(u.next)]
           proc == Process(u.procs[p_idx + 1])
       IN [u EXCEPT !.next = SubSeq(u.next, 1, Len(u.next) - 1),
                    !.procs[p_idx + 1] = proc,
                    !.forward = Append(u.forward, Dispatch(OutputCons(proc), p_idx))]

\* Unit::process_next
process_next(u) ==
  IF u.next = <<>> THEN u
  ELSE LET p_idx == Head(u.next)
           proc == Process(u.procs[p_idx + 1])
       IN [u EXCEPT !.next = Tail(u.next),
                    !.procs[p_idx + 1] = proc,
                    !.forward = Append(u.forward, Dispatch(OutputCons(proc), p_idx))]

\* the body of the loop without the reset of the output buffer
forward_one_noreset(u, con) ==
  LET f == con.from
      t == con.to
      out_buf == u.procs[f.proc + 1].outputs[f.block + 1].b.bufs[f.conn + 1]
      \* copy from output to input, reset the output buffer, count
      ps1 == [u.procs EXCEPT
                ![t.proc + 1].inputs[t.block + 1] =
                   inc_full_cnt([@ EXCEPT !.b.bufs[t.conn + 1] =
                                   Buffer_copy_from(@, out_buf)]),
                ![f.proc + 1].outputs[f.block + 1] = inc_empty_cnt(@)]
      dl1 == [u.delivered EXCEPT ![t.proc + 1][t.block + 1][t.conn + 1] = Min(@ + 1, 2)]
      full == map_inputs(ps1[t.proc + 1],
                         [i \in 1..Len(ps1[t.proc + 1].inputs) |->
                            ps1[t.proc + 1].inputs[i].full_cnt
                              = ps1[t.proc + 1].inputs[i].b.num_cons])
      ps2 == [ps1 EXCEPT ![t.proc + 1].inputs =
                [i \in 1..Len(@) |-> rst_full_cnt(@[i])]]
  IN IF full
     THEN [u EXCEPT !.procs = ps2,
                    !.next = Append(u.next, t.proc),
                    !.backward = Append(u.backward, new_back_dispatch(ps2, t.proc)),
                    !.delivered = [dl1 EXCEPT ![t.proc + 1] = ZeroDelivered(ps2[t.proc + 1])],
                    !.admits = Append(u.admits, [proc |-> t.proc, dl |-> dl1[t.proc + 1]])]
     ELSE [u EXCEPT !.procs = ps1, !.delivered = dl1]

\* the body of the loop testing only the input block it copied into
forward_one_oneblock(u, con) ==
  LET f == con.from
      t == con.to
      out_buf == u.procs[f.proc + 1].outputs[f.block + 1].b.bufs[f.conn + 1]
      \* copy from output to input, reset the output buffer, count
      ps1 == [u.procs EXCEPT
                ![t.proc + 1].inputs[t.block + 1] =
                   inc_full_cnt([@ EXCEPT !.b.bufs[t.conn + 1] =
                                   Buffer_copy_from(@, out_buf)]),
                ![f.proc + 1].outputs[f.block + 1] =
                   inc_empty_cnt([@ EXCEPT !.b.bufs[f.conn + 1] =
                                    Buffer_reset(@)])]
      dl1 == [u.delivered EXCEPT ![t.proc + 1][t.block + 1][t.conn + 1] = Min(@ + 1, 2)]
      full == ps1[t.proc + 1].inputs[t.block + 1].full_cnt
                = ps1[t.proc + 1].inputs[t.block + 1].b.num_cons
      ps2 == [ps1 EXCEPT ![t.proc + 1].inputs =
                [i \in 1..Len(@) |-> rst_full_cnt(@[i])]]
  IN IF full
     THEN [u EXCEPT !.procs = ps2,
                    !.next = Append(u.next, t.proc),
                    !.backward = Append(u.backward, new_back_dispatch(ps2, t.proc)),
                    !.delivered = [dl1 EXCEPT ![t.proc + 1] = ZeroDelivered(ps2[t.proc + 1])],
                    !.admits = Append(u.admits, [proc |-> t.proc, dl |-> dl1[t.proc + 1]])]
     ELSE [u EXCEPT !.procs = ps1, !.delivered = dl1]

\* the body of the loop over d.cons in Unit::dispatch_next_forward
forward_one(u, con) ==
  LET f == con.from
      t == con.to
      out_buf == u.procs[f.proc + 1].outputs[f.block + 1].b.bufs[f.conn + 1]
      \* copy from output to input, reset the output buffer, count
      ps1 == [u.procs EXCEPT
                ![t.proc + 1].inputs[t.block + 1] =
                   inc_full_cnt([@ EXCEPT !.b.bufs[t.conn + 1] =
                                   Buffer_copy_from(@, out_buf)]),
                ![f.proc + 1].outputs[f.block + 1] =
                   inc_empty_cnt([@ EXCEPT !.b.bufs[f.conn + 1] =
                                    Buffer_reset(@)])]
      dl1 == [u.delivered EXCEPT ![t.proc + 1][t.block + 1][t.conn + 1] = Min(@ + 1, 2)]
      full == map_inputs(ps1[t.proc + 1],
                         [i \in 1..Len(ps1[t.proc + 1].inputs) |->
                            ps1[t.proc + 1].inputs[i].full_cnt
                              = ps1[t.proc + 1].inputs[i].b.num_cons])
      ps2 == [ps1 EXCEPT ![t.proc + 1].inputs =
                [i \in 1..Len(@) |-> rst_full_cnt(@[i])]]
  IN IF full
     THEN [u EXCEPT !.procs = ps2,
                    !.next = Append(u.next, t.proc),
                    !.backward = Append(u.backward, new_back_dispatch(ps2, t.proc)),
                    !.delivered = [dl1 EXCEPT ![t.proc + 1] = ZeroDelivered(ps2[t.proc + 1])],
                    !.admits = Append(u.admits, [proc |-> t.proc, dl |-> dl1[t.proc + 1]])]
     ELSE [u EXCEPT !.procs = ps1, !.delivered = dl1]

RECURSIVE forward_loop(_, _)
forward_loop(u, cons) ==
  IF cons = <<>> THEN u ELSE forward_loop(forward_one(u, Head(cons)), Tail(cons))

\* Unit::dispatch_next_forward
dispatch_next_forward(u) ==
  IF u.forward = <<>> THEN u
  ELSE forward_loop([u EXCEPT !.forward = Tail(u.forward), !.admits = <<>>],
                    Head(u.forward).cons)

\* the body of the loop over dspch.cons in Unit::dispatch_backward
backward_one(u, con) ==
  LET proc == u.procs[con.from.proc + 1]
  IN IF map_outputs(proc, [i \in 1..Len(proc.outputs) |->
                             proc.outputs[i].empty_cnt = proc.outputs[i].b.num_cons])
     THEN [u EXCEPT !.procs[con.from.proc + 1].outputs =
                       [i \in 1..Len(@) |-> rst_empty_cnt(@[i])],
                    !.next = IF Contains(u.start, con.from.proc)
                             THEN Append(u.next, con.from.proc)
                             ELSE u.next]
     ELSE u

RECURSIVE backward_cons(_, _)
backward_cons(u, cons) ==
  IF cons = <<>> THEN u ELSE backward_cons(backward_one(u, Head(cons)), Tail(cons))

RECURSIVE backward_jobs(_, _)
backward_jobs(u, jobs) ==
  IF jobs = <<>> THEN u
  ELSE backward_jobs(backward_cons(u, Head(jobs).cons), Tail(jobs))

\* Unit::dispatch_backward
dispatch_backward(u) == backward_jobs([u EXCEPT !.backward = <<>>], u.backward)

\* the caps that keep the queues of the model finite
Bounded(u) ==
  /\ Len(u.next) <= MaxQueue + 1
  /\ Len(u.forward) <= MaxQueue
  /\ Len(u.backward) <= MaxQueue

\* Unit::connect: the Unit it leaves and the return it leaves through
connect(u, con) ==
  IF started THEN [u |-> u, ret |-> "Err:started"]
  ELSE IF ~get_refs_ok(Len(u.procs), con.from.proc, con.to.proc)
  THEN [u |-> u, ret |-> "panic"]
  ELSE IF ~(con.from.block < num_outputs(u.procs[con.from.proc + 1].kind))
  THEN [u |-> u, ret |-> "panic"]
  ELSE IF ~(con.from.conn < BLOCK_LEN)
  THEN [u |-> u, ret |-> "panic"]
  ELSE
    LET fp == con.from.proc + 1
        fb == con.from.block + 1
        tp == con.to.proc + 1
        tb == con.to.block + 1
        o_blk == u.procs[fp].outputs[fb]
    IN IF ~Connectors_connect_ok(o_blk, Connection(con.from, con.to))
       THEN [u |-> u, ret |-> "Err:output already connected"]
       ELSE
         LET ps1 == [u.procs EXCEPT ![fp].outputs[fb] =
                       Connectors_connect(o_blk, Connection(con.from, con.to))]
         IN IF ~(con.to.block < num_inputs(ps1[tp].kind)) \/ ~(con.to.conn < BLOCK_LEN)
            THEN [u |-> [u EXCEPT !.procs = ps1], ret |-> "panic"]
            ELSE IF ~Connectors_connect_ok(ps1[tp].inputs[tb], Connection(con.to, con.from))
            THEN IF ~Connectors_disconnect_ok(ps1[fp].outputs[fb], con.from.conn)
                 THEN [u |-> [u EXCEPT !.procs = ps1], ret |-> "panic: rollback"]
                 ELSE [u |-> [u EXCEPT !.procs =
                                [ps1 EXCEPT ![fp].outputs[fb] =
                                   Connectors_disconnect(@, con.from.conn)]],
                       ret |-> "Err:input already connected"]
            ELSE [u |-> update_start_list(
                          [u EXCEPT !.procs =
                             [ps1 EXCEPT ![tp].inputs[tb] =
                                Connectors_connect(@, Connection(con.to, con.from))]],
                          con.to.proc),
                  ret |-> "Ok"]

\* the indices for which connection_exists reaches neither a slice nor a
\* block index out of range
exists_ok(u, con) ==
  /\ get_refs_ok(Len(u.procs), con.from.proc, con.to.proc)
  /\ con.from.block < num_outputs(u.procs[con.from.proc + 1].kind)
  /\ con.from.conn < BLOCK_LEN
  /\ LET c_from == u.procs[con.from.proc + 1].outputs[con.from.block + 1]
                     .b.conns[con.from.conn + 1]
     IN (IsConnected(c_from) /\ c_from.con.from = con.from /\ c_from.con.to = con.to)
          => /\ con.to.block < num_inputs(u.procs[con.to.proc + 1].kind)
             /\ con.to.conn < BLOCK_LEN

\* Unit::disconnect without its check of the run state
disconnect_nostarted(u, con) ==
  IF ~exists_ok(u, con) THEN [u |-> u, ret |-> "panic"]
  ELSE IF ~connection_exists(u, con)
  THEN [u |-> u, ret |-> "Err:doesn't exist"]
  ELSE
    LET fp == con.from.proc + 1
        fb == con.from.block + 1
        tp == con.to.proc + 1
        tb == con.to.block + 1
    IN IF ~Connectors_disconnect_ok(u.procs[fp].outputs[fb], con.from.conn)
       THEN [u |-> u, ret |-> "Err:not connected"]
       ELSE
         LET ps1 == [u.procs EXCEPT ![fp].outputs[fb] =
                       Connectors_disconnect(@, con.from.conn)]
         IN IF ~Connectors_disconnect_ok(ps1[tp].inputs[tb], con.to.conn)
            THEN [u |-> [u EXCEPT !.procs = ps1], ret |-> "Err:not connected"]
            ELSE [u |-> update_start_list(
                          [u EXCEPT !.procs =
                             [ps1 EXCEPT ![tp].inputs[tb] =
                                Connectors_disconnect(@, con.to.conn)]],
                          con.to.proc),
                  ret |-> "Ok"]

\* Unit::disconnect unbinding the output slot only
disconnect_oneside(u, con) ==
  IF started THEN [u |-> u, ret |-> "Err:started"]
  ELSE IF ~exists_ok(u, con) THEN [u |-> u, ret |-> "panic"]
  ELSE IF ~connection_exists(u, con)
  THEN [u |-> u, ret |-> "Err:doesn't exist"]
  ELSE
    LET fp == con.from.proc + 1
        fb == con.from.block + 1
    IN IF ~Connectors_disconnect_ok(u.procs[fp].outputs[fb], con.from.conn)
       THEN [u |-> u, ret |-> "Err:not connected"]
       ELSE
         LET ps1 == [u.procs EXCEPT ![fp].outputs[fb] =
                       Connectors_disconnect(@, con.from.conn)]
         IN [u |-> update_start_list([u EXCEPT !.procs = ps1], con.to.proc),
             ret |-> "Ok"]

\* Unit::disconnect: the Unit it leaves and the return it leaves through
disconnect(u, con) ==
  IF started THEN [u |-> u, ret |-> "Err:started"]
  ELSE IF ~exists_ok(u, con) THEN [u |-> u, ret |-> "panic"]
  ELSE IF ~connection_exists(u, con)
  THEN [u |-> u, ret |-> "Err:doesn't exist"]
  ELSE
    LET fp == con.from.proc + 1
        fb == con.from.block + 1
        tp == con.to.proc + 1
        tb == con.to.block + 1
    IN IF ~Connectors_disconnect_ok(u.procs[fp].outputs[fb], con.from.conn)
       THEN [u |-> u, ret |-> "Err:not connected"]
       ELSE
         LET ps1 == [u.procs EXCEPT ![fp].outputs[fb] =
                       Connectors_disconnect(@, con.from.conn)]
         IN IF ~Connectors_disconnect_ok(ps1[tp].inputs[tb], con.to.conn)
            THEN [u |-> [u EXCEPT !.procs = ps1], ret |-> "Err:not connected"]
            ELSE [u |-> update_start_list(
                          [u EXCEPT !.procs =
                             [ps1 EXCEPT ![tp].inputs[tb] =
                                Connectors_disconnect(@, con.to.conn)]],
                          con.to.proc),
                  ret |-> "Ok"]

\* the processors that a bound output connection of one of the processors of
\* S leads to
Successors(ps, S) ==
  { ps[p + 1].outputs[b].b.conns[c].con.to.proc :
      <<p, b, c>> \in { x \in S \X (1..1) \X (1..BLOCK_LEN) :
                          /\ x[2] <= Len(ps[x[1] + 1].outputs)
                          /\ IsConnected(ps[x[1] + 1].outputs[x[2]].b.conns[x[3]]) } }

RECURSIVE ReachFrom(_, _)
ReachFrom(ps, S) ==
  LET T == S \cup Successors(ps, S) IN IF T = S THEN S ELSE ReachFrom(ps, T)

\* b is a or is reached from a through bound connections
Reaches(ps, a, b) == b \in ReachFrom(ps, {a})

\* no processor reaches itself through bound connections
NoCycle(ps) ==
  \A p \in 0..(Len(ps) - 1) : p \notin ReachFrom(ps, Successors(ps, {p}))

(***************************************************************************)
(* The arguments the calls are tried with                                  *)
(***************************************************************************)
EndPoints(n, maxblock) ==
  { EndPoint(p, b, c) : p \in 0..(n - 1), b \in 0..maxblock, c \in 0..(BLOCK_LEN - 1) }

\* from: any processor id below n (in the Unit or not), output block 0;
\* to: any processor id below n, input blocks 0..maxblock; self-connections
\* included
Connections(n, maxblock) ==
  { Connection(f, t) : f \in EndPoints(n, 0), t \in EndPoints(n, maxblock) }

(***************************************************************************)
(* Init and the actions: one per public function of Unit                   *)
(***************************************************************************)
Init ==
  /\ procs = <<>>
  /\ next = <<>>
  /\ forward = <<>>
  /\ backward = <<>>
  /\ start = <<>>
  /\ state = "Stopped"
  /\ pc = "idle"
  /\ turn = 0
  /\ calls = 0
  /\ last = Ret("default", "Ok")
  /\ delivered = <<>>
  /\ admits = <<>>
  /\ acyclic = TRUE
  /\ buffer = BufferDefault
  /\ other = BufferDefault
  /\ block = InputDefault
  /\ bufs = [i \in 1..NumBufs |-> BufferDefault]
  /\ ops = <<>>

Callable == pc = "idle" /\ ~Panicked

\* Unit::add, for a Unit that may hold cap processors
AddTo(kind, cap) ==
  /\ Callable
  /\ IF started
     THEN /\ last' = Ret("add", "Err:started")
          /\ UNCHANGED <<procs, next, forward, backward, start, delivered, admits>>
     ELSE /\ Len(procs) < cap
          /\ start' = Append(start, Len(procs))
          /\ procs' = Append(procs, NewProcessor(kind))
          /\ delivered' = Append(delivered, ZeroDelivered(NewProcessor(kind)))
          /\ last' = Ret("add", "Ok")
          /\ UNCHANGED <<next, forward, backward, admits>>
  /\ UNCHANGED <<state, pc, acyclic>>
  /\ UNCHANGED bufvars

\* a call made in any order, counted against MaxCalls
Call == calls < MaxCalls /\ calls' = calls + 1 /\ UNCHANGED turn

Add == Call /\ \E kind \in Kinds : AddTo(kind, MaxProcs)

ConnectWith(con) ==
  /\ Callable
  /\ LET r == connect(U, con)
     IN /\ SetU(r.u)
        /\ last' = Ret("connect", r.ret)
        /\ acyclic' = (acyclic /\ NoCycle(r.u.procs))
  /\ UNCHANGED <<state, pc>>
  /\ UNCHANGED bufvars

Connect == Call /\ \E con \in Connections(MaxProcs, MaxInBlock) : ConnectWith(con)

DisconnectWith(con) ==
  /\ Callable
  /\ LET r == disconnect(U, con)
     IN SetU(r.u) /\ last' = Ret("disconnect", r.ret)
  /\ UNCHANGED <<state, pc, acyclic>>
  /\ UNCHANGED bufvars

Disconnect == Call /\ \E con \in Connections(MaxProcs, MaxInBlock) : DisconnectWith(con)

\* Unit::start without its check of the run state
start_unit_restart ==
  /\ Callable
  /\ next' = IF next = <<>> THEN start ELSE next
  /\ state' = "Started"
  /\ last' = Ret("start", "Ok")
  /\ UNCHANGED <<procs, forward, backward, start, pc, delivered, admits, acyclic>>
  /\ UNCHANGED bufvars

\* Unit::start seeding the ready queue whether it is empty or not
start_unit_always_seed ==
  /\ Callable
  /\ IF started
     THEN /\ last' = Ret("start", "Err:started")
          /\ UNCHANGED <<next, state>>
     ELSE /\ next' = next \o start
          /\ state' = "Started"
          /\ last' = Ret("start", "Ok")
  /\ UNCHANGED <<procs, forward, backward, start, pc, delivered, admits, acyclic>>
  /\ UNCHANGED bufvars

\* Unit::start
start_unit ==
  /\ Callable
  /\ IF started
     THEN /\ last' = Ret("start", "Err:started")
          /\ UNCHANGED <<next, state>>
     ELSE /\ next' = IF next = <<>> THEN start ELSE next
          /\ state' = "Started"
          /\ last' = Ret("start", "Ok")
  /\ UNCHANGED <<procs, forward, backward, start, pc, delivered, admits, acyclic>>
  /\ UNCHANGED bufvars

StepWith(u, op, arg) ==
  /\ Callable
  /\ Bounded(u)
  /\ SetU(u)
  /\ last' = RetArg(op, "Ok", arg)
  /\ UNCHANGED <<state, pc, acyclic>>
  /\ UNCHANGED bufvars

\* the processor process_next is about to run
Front == IF next = <<>> THEN -1 ELSE Head(next)

Start == Call /\ start_unit

ProcessNext == Call /\ StepWith(process_next(U), "process_next", Front)

DispatchNextForward ==
  Call /\ StepWith(dispatch_next_forward(U), "dispatch_next_forward", -1)

DispatchBackward == Call /\ StepWith(dispatch_backward(U), "dispatch_backward", -1)

\* Unit::drain_and_stop up to its loop: the state check and the backward sweep
drain_and_stop ==
  /\ Callable
  /\ IF ~started
     THEN /\ last' = Ret("drain_and_stop", "Err:stopped")
          /\ UNCHANGED <<procs, next, forward, backward, start, delivered, admits, pc>>
     ELSE /\ Bounded(dispatch_backward(U))
          /\ SetU(dispatch_backward(U))
          /\ pc' = "draining"
          /\ last' = Ret("drain_and_stop", "running")
  /\ UNCHANGED <<state, acyclic>>
  /\ UNCHANGED bufvars

DrainAndStop == Call /\ drain_and_stop

\* one iteration of the loop of drain_and_stop
DrainLoop ==
  /\ pc = "draining"
  /\ next # <<>>
  /\ Bounded(dispatch_next_forward(process_next(U)))
  /\ SetU(dispatch_next_forward(process_next(U)))
  /\ UNCHANGED <<state, pc, turn, calls, last, acyclic>>
  /\ UNCHANGED bufvars

\* the return of drain_and_stop without the assignment of the run state
DrainReturn_nostop ==
  /\ pc = "draining"
  /\ next = <<>>
  /\ pc' = "idle"
  /\ last' = Ret("drain_and_stop", "Ok")
  /\ UNCHANGED <<procs, next, forward, backward, start, state, turn, calls, delivered,
                 admits, acyclic>>
  /\ UNCHANGED bufvars

\* the exit of the loop of drain_and_stop and its return
DrainReturn ==
  /\ pc = "draining"
  /\ next = <<>>
  /\ state' = "Stopped"
  /\ pc' = "idle"
  /\ last' = Ret("drain_and_stop", "Ok")
  /\ UNCHANGED <<procs, next, forward, backward, start, turn, calls, delivered, admits, acyclic>>
  /\ UNCHANGED bufvars

Next ==
  \/ Add
  \/ Connect
  \/ Disconnect
  \/ Start
  \/ ProcessNext
  \/ DispatchNextForward
  \/ DispatchBackward
  \/ DrainAndStop
  \/ DrainLoop
  \/ DrainReturn

Spec == Init /\ [][Next]_vars

(***************************************************************************)
(* SpecTurns: the driver of examples/sinefun.rs and examples/sawfun.rs.    *)
(* The graph is built on the Stopped Unit by calls of add and connect that *)
(* succeed and keep it acyclic, the Unit is started, and the driver then   *)
(* repeats process_next, dispatch_next_forward, dispatch_backward.         *)
(***************************************************************************)
NumCons(ps) ==
  SumSeq([i \in 1..Len(ps) |->
            SumSeq([b \in 1..Len(ps[i].outputs) |-> ps[i].outputs[b].b.num_cons])])

Building == ~started /\ turn = 0 /\ UNCHANGED <<turn, calls>>

TurnAdd == Building /\ \E kind \in Kinds : AddTo(kind, MaxTurnProcs)

TurnConnect ==
  /\ Building
  /\ NumCons(procs) < MaxTurnCons
  /\ \E con \in Connections(MaxTurnProcs, MaxTurnInBlock) :
       /\ connect(U, con).ret = "Ok"
       /\ ~Reaches(procs, con.to.proc, con.from.proc)
       /\ ConnectWith(con)

TurnStart == Building /\ start_unit

Turn(n) == started /\ turn = n /\ turn' = (n + 1) % 3 /\ UNCHANGED calls

TurnProcessNext == Turn(0) /\ StepWith(process_next(U), "process_next", Front)

TurnDispatchNextForward ==
  Turn(1) /\ StepWith(dispatch_next_forward(U), "dispatch_next_forward", -1)

TurnDispatchBackward ==
  Turn(2) /\ StepWith(dispatch_backward(U), "dispatch_backward", -1)

NextTurns ==
  \/ TurnAdd
  \/ TurnConnect
  \/ TurnStart
  \/ TurnProcessNext
  \/ TurnDispatchNextForward
  \/ TurnDispatchBackward

SpecTurns == Init /\ [][NextTurns]_vars

(***************************************************************************)
(* SpecStream: the same driver, run for ever.  The graph is built as the   *)
(* examples build theirs: the processors (Sine) are added first and then   *)
(* wired, each connection from a processor to one added after it, into the *)
(* first free connector of the output block and of the input block, the    *)
(* connections made in the order of the processors they leave and, for one *)
(* processor, of the inputs they reach, an input block taken only once the *)
(* block before it has a connection; the Unit is started once every        *)
(* processor is wired.  The loop of main takes its three steps in turn and *)
(* none of them can block, which is the fairness SpecStream states.        *)
(***************************************************************************)
\* the first Unconnected connector of a block (0-based), BLOCK_LEN when none
RECURSIVE first_free(_, _)
first_free(conns, c) ==
  IF c >= BLOCK_LEN \/ ~IsConnected(conns[c + 1]) THEN c
  ELSE first_free(conns, c + 1)

\* the highest processor a bound output connection leaves, -1 when none
last_wired(ps) ==
  LET W == { i \in 1..Len(ps) : \E b \in 1..Len(ps[i].outputs) :
                                   ps[i].outputs[b].b.num_cons > 0 }
  IN IF W = {} THEN -1 ELSE (CHOOSE i \in W : \A j \in W : j <= i) - 1

\* con reaches no earlier an input than the connection made before it from the
\* same output block
InOrder(ps, con) ==
  LET cs == ps[con.from.proc + 1].outputs[1].b.conns
      c == con.from.conn
  IN c > 0 => \/ cs[c].con.to.proc < con.to.proc
              \/ /\ cs[c].con.to.proc = con.to.proc
                 /\ cs[c].con.to.block <= con.to.block

\* processor p (0-based id) has a bound connector
Wired(ps, p) ==
  \/ \E b \in 1..Len(ps[p + 1].inputs) : ps[p + 1].inputs[b].b.num_cons > 0
  \/ \E b \in 1..Len(ps[p + 1].outputs) : ps[p + 1].outputs[b].b.num_cons > 0

StreamAdd == Building /\ NumCons(procs) = 0 /\ AddTo("Sine", MaxStreamProcs)

StreamConnect ==
  /\ Building
  /\ NumCons(procs) < MaxStreamCons
  /\ \E con \in Connections(MaxStreamProcs, MaxStreamInBlock) :
       /\ con.from.proc < con.to.proc
       /\ con.to.proc < Len(procs)
       /\ con.from.proc >= last_wired(procs)
       /\ con.from.conn = first_free(procs[con.from.proc + 1].outputs[1].b.conns, 0)
       /\ con.to.conn = first_free(procs[con.to.proc + 1]
                                     .inputs[con.to.block + 1].b.conns, 0)
       /\ InOrder(procs, con)
       /\ con.to.block > 0 =>
            procs[con.to.proc + 1].inputs[con.to.block].b.num_cons > 0
       /\ connect(U, con).ret = "Ok"
       /\ ConnectWith(con)

StreamStart ==
  Building /\ (\A p \in 0..(Len(procs) - 1) : Wired(procs, p)) /\ start_unit

\* a step function called by the driver loop
StreamStep(u, op, arg) ==
  /\ Callable
  /\ SetU(u)
  /\ last' = RetArg(op, "Ok", arg)
  /\ UNCHANGED <<state, pc, acyclic>>
  /\ UNCHANGED bufvars

StreamProcessNext == Turn(0) /\ StreamStep(process_next(U), "process_next", Front)

StreamDispatchNextForward ==
  Turn(1) /\ StreamStep(dispatch_next_forward(U), "dispatch_next_forward", -1)

StreamDispatchBackward ==
  Turn(2) /\ StreamStep(dispatch_backward(U), "dispatch_backward", -1)

NextStream ==
  \/ StreamAdd
  \/ StreamConnect
  \/ StreamStart
  \/ StreamProcessNext
  \/ StreamDispatchNextForward
  \/ StreamDispatchBackward

\* the loop of main goes on to its next call: in a started Unit it is the
\* step of NextStream that is enabled, and the only kind that changes turn
LoopAdvances == started /\ turn' = (turn + 1) % 3

SpecStream == Init /\ [][NextStream]_vars /\ WF_turn(LoopAdvances)

(***************************************************************************)
(* SpecDrain: drain_and_stop on acyclic graphs.  The graph is built on the *)
(* Stopped Unit by calls of add and connect that succeed and keep it       *)
(* acyclic, the Unit is started, the step functions are called in any      *)
(* order, and drain_and_stop is then called; its loop is followed call by  *)
(* call.                                                                   *)
(***************************************************************************)
DrainBuilding == ~started /\ calls = 0 /\ UNCHANGED <<turn, calls>>

DrainAdd == DrainBuilding /\ \E kind \in Kinds : AddTo(kind, MaxDrainProcs)

DrainConnect ==
  /\ DrainBuilding
  /\ NumCons(procs) < MaxDrainCons
  /\ \E con \in Connections(MaxDrainProcs, MaxDrainInBlock) :
       /\ connect(U, con).ret = "Ok"
       /\ ~Reaches(procs, con.to.proc, con.from.proc)
       /\ ConnectWith(con)

DrainStart == DrainBuilding /\ procs # <<>> /\ start_unit

\* a call of a step function on the Started Unit before drain_and_stop
DrainStep == started /\ calls < MaxDrainCalls /\ calls' = calls + 1 /\ UNCHANGED turn

DrainProcessNext == DrainStep /\ StepWith(process_next(U), "process_next", Front)

DrainDispatchNextForward ==
  DrainStep /\ StepWith(dispatch_next_forward(U), "dispatch_next_forward", -1)

DrainDispatchBackward ==
  DrainStep /\ StepWith(dispatch_backward(U), "dispatch_backward", -1)

\* the call of drain_and_stop: its state check and backward sweep
DrainEnter == started /\ calls' = calls + 1 /\ turn' = 0 /\ drain_and_stop

\* the loop of drain_and_stop: process_next()
DrainLoopProcess ==
  /\ pc = "draining"
  /\ turn = 0
  /\ next # <<>>
  /\ SetU(process_next(U))
  /\ turn' = 1
  /\ UNCHANGED <<state, pc, calls, last, acyclic>>
  /\ UNCHANGED bufvars

\* the loop of drain_and_stop: dispatch_next_forward()
DrainLoopForward ==
  /\ pc = "draining"
  /\ turn = 1
  /\ SetU(dispatch_next_forward(U))
  /\ turn' = 0
  /\ UNCHANGED <<state, pc, calls, last, acyclic>>
  /\ UNCHANGED bufvars

\* the loop of drain_and_stop finds the ready queue empty
DrainExit == turn = 0 /\ DrainReturn

NextDrain ==
  \/ DrainAdd
  \/ DrainConnect
  \/ DrainStart
  \/ DrainProcessNext
  \/ DrainDispatchNextForward
  \/ DrainDispatchBackward
  \/ DrainEnter
  \/ DrainLoopProcess
  \/ DrainLoopForward
  \/ DrainExit

\* drain_and_stop goes on to its next statement: inside the call it is the
\* step of NextDrain that is enabled, and the only kind that changes pc or
\* turn
DrainAdvances ==
  /\ pc = "draining"
  /\ IF turn = 0 /\ next = <<>>
     THEN pc' = "idle" /\ turn' = turn
     ELSE pc' = pc /\ turn' = 1 - turn

SpecDrain == Init /\ [][NextDrain]_vars /\ WF_<<pc, turn>>(DrainAdvances)

(***************************************************************************)
(* SpecBuild: add, connect and disconnect are called in any order on a     *)
(* Unit that has never been started, and start is then called.             *)
(***************************************************************************)
BuildCall == turn = 0 /\ calls < MaxBuildCalls /\ calls' = calls + 1 /\ UNCHANGED turn

BuildAdd == BuildCall /\ \E kind \in Kinds : AddTo(kind, MaxProcs)

BuildConnect ==
  BuildCall /\ \E con \in Connections(MaxProcs, MaxInBlock) : ConnectWith(con)

BuildDisconnect ==
  BuildCall /\ \E con \in Connections(MaxProcs, MaxInBlock) : DisconnectWith(con)

BuildStart == turn = 0 /\ start_unit /\ turn' = 1 /\ UNCHANGED calls

NextBuild ==
  \/ BuildAdd
  \/ BuildConnect
  \/ BuildDisconnect
  \/ BuildStart

SpecBuild == Init /\ [][NextBuild]_vars

(***************************************************************************)
(* SpecAdmit: the graph is built on the Stopped Unit by calls of add,      *)
(* connect and disconnect in any order, kept acyclic; the Unit is started  *)
(* and the driver then repeats process_next, dispatch_next_forward,        *)
(* dispatch_backward.  The processors are Sine generators.  The steps of   *)
(* the driver are taken whatever the length of the queues.                 *)
(***************************************************************************)
AdmitCall ==
  ~started /\ turn = 0 /\ calls < MaxAdmitBuild /\ calls' = calls + 1 /\ UNCHANGED turn

AdmitAdd == AdmitCall /\ AddTo("Sine", MaxAdmitProcs)

AdmitConnect ==
  /\ AdmitCall
  /\ \E con \in Connections(MaxAdmitProcs, MaxInBlock) :
       /\ connect(U, con).ret # "panic"
       /\ ~Reaches(procs, con.to.proc, con.from.proc)
       /\ ConnectWith(con)

AdmitDisconnect ==
  /\ AdmitCall
  /\ \E con \in Connections(MaxAdmitProcs, MaxInBlock) :
       /\ disconnect(U, con).ret # "panic"
       /\ DisconnectWith(con)

AdmitStart ==
  ~started /\ turn = 0 /\ procs # <<>> /\ start_unit /\ UNCHANGED <<turn, calls>>

\* the n-th call of a turn of the driver loop
AdmitTurn(n) ==
  /\ started
  /\ turn = n
  /\ turn' = (n + 1) % 3
  /\ calls < MaxAdmitCalls
  /\ calls' = calls + 1

AdmitProcessNext == AdmitTurn(0) /\ StreamStep(process_next(U), "process_next", Front)

AdmitDispatchNextForward ==
  AdmitTurn(1) /\ StreamStep(dispatch_next_forward(U), "dispatch_next_forward", -1)

AdmitDispatchBackward ==
  AdmitTurn(2) /\ StreamStep(dispatch_backward(U), "dispatch_backward", -1)

NextAdmit ==
  \/ AdmitAdd
  \/ AdmitConnect
  \/ AdmitDisconnect
  \/ AdmitStart
  \/ AdmitProcessNext
  \/ AdmitDispatchNextForward
  \/ AdmitDispatchBackward

SpecAdmit == Init /\ [][NextAdmit]_vars

(***************************************************************************)
(* SpecRestart: a Unit of Sine processors on an acyclic graph is started,  *)
(* driven by the loop of main for any number of turns, stopped with        *)
(* drain_and_stop at the top of the loop, started again and driven for     *)
(* ever.  calls counts the changes of run state: 0 up to the call of       *)
(* drain_and_stop, 1 from then to the second start, 2 afterwards.          *)
(***************************************************************************)
RestartAdd == calls = 0 /\ Building /\ AddTo("Sine", MaxRestartProcs)

RestartConnect ==
  /\ calls = 0
  /\ Building
  /\ NumCons(procs) < MaxRestartCons
  /\ \E con \in Connections(MaxRestartProcs, 0) :
       /\ connect(U, con).ret = "Ok"
       /\ ~Reaches(procs, con.to.proc, con.from.proc)
       /\ ConnectWith(con)

RestartStart == calls = 0 /\ Building /\ procs # <<>> /\ start_unit

RestartDrainAndStop ==
  /\ started
  /\ turn = 0
  /\ calls = 0
  /\ calls' = 1
  /\ drain_and_stop
  /\ UNCHANGED turn

RestartAgain ==
  /\ ~started
  /\ calls = 1
  /\ calls' = 2
  /\ start_unit
  /\ UNCHANGED turn

NextRestart ==
  \/ RestartAdd
  \/ RestartConnect
  \/ RestartStart
  \/ StreamProcessNext
  \/ StreamDispatchNextForward
  \/ StreamDispatchBackward
  \/ RestartDrainAndStop
  \/ DrainLoop
  \/ DrainReturn
  \/ RestartAgain

SpecRestart == Init /\ [][NextRestart]_vars /\ WF_turn(LoopAdvances)

(***************************************************************************)
(* SpecRewire: a Unit that is built, started, stepped, stopped with        *)
(* drain_and_stop and then rewired.  The processors are Sine generators;   *)
(* the wires are taken from RewireCons.  On the stopped Unit add, connect, *)
(* disconnect and the step functions are called in any order: none of the  *)
(* step functions tests the run state.                                     *)
(***************************************************************************)
\* 0.out0[0] -> 1.in0[0], 2.out0[0] -> 1.in0[0] (the same input slot) and
\* 2.out0[1] -> 0.in0[0]
RewireCons ==
  { Connection(EndPoint(0, 0, 0), EndPoint(1, 0, 0)),
    Connection(EndPoint(2, 0, 0), EndPoint(1, 0, 0)),
    Connection(EndPoint(2, 0, 1), EndPoint(0, 0, 0)) }

\* turn = 0: the Unit has not been started yet; turn = 1: it has
RewireCall == calls < MaxRewireCalls /\ calls' = calls + 1

RewireAdd == RewireCall /\ ~started /\ AddTo("Sine", MaxRewireProcs) /\ UNCHANGED turn

RewireConnect ==
  /\ RewireCall
  /\ ~started
  /\ \E con \in RewireCons : ConnectWith(con)
  /\ UNCHANGED turn

RewireDisconnect ==
  /\ RewireCall
  /\ ~started
  /\ turn = 1
  /\ \E con \in RewireCons : DisconnectWith(con)
  /\ UNCHANGED turn

RewireStart == RewireCall /\ turn = 0 /\ procs # <<>> /\ start_unit /\ turn' = 1

\* a step function called on the Unit, Started or Stopped
RewireStep(u, op, arg) ==
  /\ RewireCall
  /\ turn = 1
  /\ Callable
  /\ SetU(u)
  /\ last' = RetArg(op, "Ok", arg)
  /\ UNCHANGED <<state, pc, turn, acyclic>>
  /\ UNCHANGED bufvars

RewireProcessNext == RewireStep(process_next(U), "process_next", Front)

RewireDispatchNextForward ==
  RewireStep(dispatch_next_forward(U), "dispatch_next_forward", -1)

RewireDispatchBackward == RewireStep(dispatch_backward(U), "dispatch_backward", -1)

RewireDrainAndStop == RewireCall /\ started /\ drain_and_stop /\ UNCHANGED turn

NextRewire ==
  \/ RewireAdd
  \/ RewireConnect
  \/ RewireDisconnect
  \/ RewireStart
  \/ RewireProcessNext
  \/ RewireDispatchNextForward
  \/ RewireDispatchBackward
  \/ RewireDrainAndStop
  \/ DrainLoop
  \/ DrainReturn

SpecRewire == Init /\ [][NextRewire]_vars

(***************************************************************************)
(* SpecBlock: one Input block, created by default, on which connect and    *)
(* disconnect are called in any order with any slot index of the block.    *)
(***************************************************************************)
OpVal(op, val) == [op |-> op, val |-> val]

\* the Connections passed to connect: this block's slot c as 'from', a slot
\* of one of two peers as 'to'
BlockCons ==
  { Connection(EndPoint(0, 0, c), t) :
      c \in 0..(BLOCK_LEN - 1), t \in {EndPoint(1, 0, 0), EndPoint(2, 0, 1)} }

BlockCall == Len(ops) < MaxBlockOps /\ UNCHANGED <<unitvars, buffer, other, bufs>>

\* Connectors::connect on the block
BlockConnectWith(con) ==
  /\ BlockCall
  /\ block' = Connectors_connect(block, con)
  /\ ops' = Append(ops, OpVal("connect",
                              IF Connectors_connect_ok(block, con)
                              THEN "Ok" ELSE "Err:already connected"))

BlockConnect == \E con \in BlockCons : BlockConnectWith(con)

\* Connectors::disconnect on the block
BlockDisconnectAt(idx) ==
  /\ BlockCall
  /\ block' = Connectors_disconnect(block, idx)
  /\ ops' = Append(ops, OpVal("disconnect",
                              IF Connectors_disconnect_ok(block, idx)
                              THEN "Ok" ELSE "Err:not connected"))

BlockDisconnect == \E idx \in 0..(BLOCK_LEN - 1) : BlockDisconnectAt(idx)

NextBlock ==
  \/ BlockConnect
  \/ BlockDisconnect

SpecBlock == Init /\ [][NextBlock]_vars

(***************************************************************************)
(* SpecBuffer: one Buffer, created empty by default, on which put, next,   *)
(* fill, rewind, reset and copy_from are called in any order.              *)
(***************************************************************************)
\* the samples passed to put and fill: two values that differ from each other
\* and from the zero sample
Samples == {1, 2}

\* the Buffers passed to copy_from: empty, partly written, filled and partly
\* read, full
Others ==
  { BufferDefault,
    Buffer_put(BufferDefault, 1),
    Buffer_next(Buffer_fill(BufferDefault, 2)),
    Buffer_fill(Buffer_put(BufferDefault, 2), 1) }

BufferCall == Len(ops) < MaxBufferOps /\ UNCHANGED <<unitvars, block, bufs>>

BufferPutOf(v) ==
  /\ BufferCall
  /\ buffer' = Buffer_put(buffer, v)
  /\ ops' = Append(ops, OpVal("put", v))
  /\ UNCHANGED other

BufferPut == \E v \in Samples : BufferPutOf(v)

BufferNext ==
  /\ BufferCall
  /\ buffer' = Buffer_next(buffer)
  /\ ops' = Append(ops, OpVal("next", Buffer_next_val(buffer)))
  /\ UNCHANGED other

BufferFillOf(v) ==
  /\ BufferCall
  /\ buffer' = Buffer_fill(buffer, v)
  /\ ops' = Append(ops, OpVal("fill", v))
  /\ UNCHANGED other

BufferFill == \E v \in Samples : BufferFillOf(v)

BufferRewind ==
  /\ BufferCall
  /\ buffer' = Buffer_rewind(buffer)
  /\ ops' = Append(ops, OpVal("rewind", -1))
  /\ UNCHANGED other

BufferReset ==
  /\ BufferCall
  /\ buffer' = Buffer_reset(buffer)
  /\ ops' = Append(ops, OpVal("reset", -1))
  /\ UNCHANGED other

\* buffer.copy_from(&o): other is o as the call leaves it
BufferCopyFromOf(o) ==
  /\ BufferCall
  /\ buffer' = Buffer_copy_from(buffer, o)
  /\ other' = o
  /\ ops' = Append(ops, OpVal("copy_from", -1))

BufferCopyFrom == \E o \in Others : BufferCopyFromOf(o)

NextBuffer ==
  \/ BufferPut
  \/ BufferNext
  \/ BufferFill
  \/ BufferRewind
  \/ BufferReset
  \/ BufferCopyFrom

SpecBuffer == Init /\ [][NextBuffer]_vars

(***************************************************************************)
(* SpecDistribute: distribute is called on a slice of NumBufs Buffers,     *)
(* each of them filled, or written in part, before the call, with any map  *)
(* of one to NumBufs indices into the slice and either closure.            *)
(***************************************************************************)
\* the Buffers of the slice before the first call
DistInputs ==
  { Buffer_fill(BufferDefault, 1),
    Buffer_fill(BufferDefault, 2),
    Buffer_next(Buffer_fill(BufferDefault, 3)),
    Buffer_put(BufferDefault, 4) }

Maps == UNION { [1..n -> 0..(NumBufs - 1)] : n \in 1..NumBufs }

InitDistribute ==
  /\ procs = <<>>
  /\ next = <<>>
  /\ forward = <<>>
  /\ backward = <<>>
  /\ start = <<>>
  /\ state = "Stopped"
  /\ pc = "idle"
  /\ turn = 0
  /\ calls = 0
  /\ last = Ret("default", "Ok")
  /\ delivered = <<>>
  /\ admits = <<>>
  /\ acyclic = TRUE
  /\ buffer = BufferDefault
  /\ other = BufferDefault
  /\ block = InputDefault
  /\ bufs \in [1..NumBufs -> DistInputs]
  /\ ops = <<>>

DistributeWith(map, f) ==
  /\ Len(ops) < MaxDistOps
  /\ bufs' = distribute(bufs, map, f)
  /\ ops' = Append(ops, OpVal("distribute", <<map, f>>))
  /\ UNCHANGED <<unitvars, buffer, other, block>>

Distribute == \E map \in Maps, f \in Fs : DistributeWith(map, f)

NextDistribute == Distribute

SpecDistribute == InitDistribute /\ [][NextDistribute]_vars

(***************************************************************************)
(* Claims                                                                  *)
(***************************************************************************)
\* the input slots of processor p (0-based id) that are bound
BoundInputSlots(p) ==
  { x \in (1..Len(procs[p + 1].inputs)) \X (1..BLOCK_LEN) :
      IsConnected(procs[p + 1].inputs[x[1]].b.conns[x[2]]) }

\* C1: readiness gating.  Under the driver loop on an acyclic graph, every
\* processor that dispatch_next_forward pushed onto the ready queue had, at
\* that moment, received exactly one forward copy into each of its bound
\* input slots since its full_cnt counters were last reset.
C1_ReadinessGating ==
  \A i \in 1..Len(admits) :
    \A x \in BoundInputSlots(admits[i].proc) : admits[i].dl[x[1]][x[2]] = 1

\* a bound output slot of processor p (0-based id) holds samples that a
\* compute step wrote and no forward dispatch has copied out and reset
\* (output buffers are written by Process and reset by forward_one only)
Undrained(p) ==
  \E b \in 1..Len(procs[p + 1].outputs) : \E c \in 1..BLOCK_LEN :
    /\ IsConnected(procs[p + 1].outputs[b].b.conns[c])
    /\ procs[p + 1].outputs[b].b.bufs[c].wrpos > 0

\* a step in which Unit::process_next runs the processor at the front of next
RunsFront ==
  next # <<>> /\ (ProcessNext \/ TurnProcessNext \/ StreamProcessNext \/ DrainLoop)

\* C2: no producer overwrites an un-drained output.  Whatever the sequence of
\* calls on a graph that has never held a cycle, process_next never runs a
\* processor one of whose bound output slots still holds samples of an earlier
\* compute step.
C2_NoOverwrite == [][(acyclic /\ RunsFront) => ~Undrained(Head(next))]_vars

\* C3: every input block has full_cnt <= num_cons, and a processor all of
\* whose input blocks have reached num_cons has had them reset to 0.
C3_FullCnt ==
  \A i \in 1..Len(procs) :
    /\ \A b \in 1..Len(procs[i].inputs) :
         procs[i].inputs[b].full_cnt <= procs[i].inputs[b].b.num_cons
    /\ (\A b \in 1..Len(procs[i].inputs) :
          procs[i].inputs[b].full_cnt = procs[i].inputs[b].b.num_cons)
         => \A b \in 1..Len(procs[i].inputs) : procs[i].inputs[b].full_cnt = 0

\* C4: every output block has empty_cnt <= num_cons: empty_cnt never keeps
\* counting past num_cons.
C4_EmptyCnt ==
  \A i \in 1..Len(procs) : \A b \in 1..Len(procs[i].outputs) :
    procs[i].outputs[b].empty_cnt <= procs[i].outputs[b].b.num_cons

\* C5: when drain_and_stop has returned Ok, the ready, forward and backward
\* queues are empty and the Unit is Stopped.
C5_DrainEmpties ==
  last = Ret("drain_and_stop", "Ok")
    => next = <<>> /\ forward = <<>> /\ backward = <<>> /\ state = "Stopped"

\* p (0-based id) is a start node of the started Unit with a bound output
Source(p) ==
  /\ started
  /\ p < Len(procs)
  /\ Contains(start, p)
  /\ \E b \in 1..Len(procs[p + 1].outputs) : procs[p + 1].outputs[b].b.num_cons > 0

\* C6: continuous streaming of sources.  Under the driver loop repeated for
\* ever on an acyclic graph, every start node with a bound output connection
\* is run again and again: whenever it is such a start node, process_next
\* runs it at that moment or later.
C6_SourcesStream ==
  \A p \in 0..(MaxStreamProcs - 1) :
    [](Source(p) => <>(last = RetArg("process_next", "Ok", p)))

\* C7: start-node invariant.  A processor id is in the start set if and only
\* if none of the slots of its input blocks is bound.
C7_StartNodes ==
  \A p \in 0..(Len(procs) - 1) : Contains(start, p) <=> BoundInputSlots(p) = {}

\* a disconnect has just put a processor back into the start set, behind a
\* processor added after it
C7_Witness ==
  /\ last = Ret("disconnect", "Ok")
  /\ \E i \in 1..(Len(start) - 1) : start[i] > start[i + 1]

ConnectBindErrs == {"Err:output already connected", "Err:input already connected"}

\* C8: connect is all-or-nothing.  A connect that returns because binding the
\* output slot or the mirrored input slot failed leaves every connector, every
\* num_cons (the whole processor list), the start set and the ready queue as
\* they were, and the rollback disconnect never fails.
C8_ConnectAllOrNothing ==
  [][(last'.op = "connect" /\ Connect)
       => /\ last'.ret # "panic: rollback"
          /\ last'.ret \in ConnectBindErrs
               => (procs' = procs /\ start' = start /\ next' = next)]_vars

\* a connect whose output bind succeeded and whose input bind failed has
\* returned: the input slot it named is bound, the output slot it named is not
C8_Witness ==
  /\ last = Ret("connect", "Err:input already connected")
  /\ \E p \in 1..Len(procs) : \E c \in 1..BLOCK_LEN :
       /\ procs[p].outputs # <<>>
       /\ ~IsConnected(procs[p].outputs[1].b.conns[c])
       /\ procs[p].outputs[1].b.num_cons = 0

\* the connector of an endpoint, Unconnected when the endpoint names no slot
OutSlot(e) ==
  IF e.proc < Len(procs) /\ e.block < Len(procs[e.proc + 1].outputs) /\ e.conn < BLOCK_LEN
  THEN procs[e.proc + 1].outputs[e.block + 1].b.conns[e.conn + 1]
  ELSE Unconnected

InSlot(e) ==
  IF e.proc < Len(procs) /\ e.block < Len(procs[e.proc + 1].inputs) /\ e.conn < BLOCK_LEN
  THEN procs[e.proc + 1].inputs[e.block + 1].b.conns[e.conn + 1]
  ELSE Unconnected

OutEnds ==
  { EndPoint(p, b, c) : p \in 0..(Len(procs) - 1), b \in 0..0, c \in 0..(BLOCK_LEN - 1) }

InEnds ==
  { EndPoint(p, b, c) : p \in 0..(Len(procs) - 1), b \in 0..3, c \in 0..(BLOCK_LEN - 1) }

\* C9: atomic pairing.  After any calls of connect and disconnect that
\* returned, every bound slot stores its own endpoint as 'from', and the output
\* slot at a stores (a, b) exactly when the input slot at b stores (b, a).
C9_AtomicPairing ==
  ~Panicked =>
    /\ \A a \in OutEnds : IsConnected(OutSlot(a)) =>
         /\ OutSlot(a).con.from = a
         /\ InSlot(OutSlot(a).con.to) = ConnectedUsing(Connection(OutSlot(a).con.to, a))
    /\ \A b \in InEnds : IsConnected(InSlot(b)) =>
         /\ InSlot(b).con.from = b
         /\ OutSlot(InSlot(b).con.to) = ConnectedUsing(Connection(InSlot(b).con.to, b))

\* a disconnect has succeeded and another connection is still bound
C9_Witness ==
  /\ last = Ret("disconnect", "Ok")
  /\ \E a \in OutEnds : IsConnected(OutSlot(a))

\* c names two distinct processors of the Unit and blocks they have
ValidCon(c) ==
  /\ get_refs_ok(Len(procs), c.from.proc, c.to.proc)
  /\ c.from.block < num_outputs(procs[c.from.proc + 1].kind)
  /\ c.to.block < num_inputs(procs[c.to.proc + 1].kind)

ExistsAfter(c) == connection_exists([procs |-> procs'], c)

\* C10: connect/disconnect symmetry on a Stopped Unit.  connect(c) with both
\* slots unbound succeeds and connection_exists(c) is then true; disconnect(c)
\* of an existing connection succeeds and connection_exists(c) is then false;
\* connect(c) of an existing connection fails.
C10_Symmetry ==
  [][\A c \in Connections(MaxProcs, MaxInBlock) :
       (~started /\ ValidCon(c)) =>
         /\ (/\ last'.op = "connect"
             /\ ~IsConnected(OutSlot(c.from))
             /\ ~IsConnected(InSlot(c.to))
             /\ Call /\ ConnectWith(c))
              => (last'.ret = "Ok" /\ ExistsAfter(c))
         /\ (/\ last'.op = "disconnect"
             /\ connection_exists(U, c)
             /\ Call /\ DisconnectWith(c))
              => (last'.ret = "Ok" /\ ~ExistsAfter(c))
         /\ (/\ last'.op = "connect"
             /\ connection_exists(U, c)
             /\ Call /\ ConnectWith(c))
              => last'.ret \in ConnectBindErrs]_vars

\* a connect that named a bound output slot has just failed
C10_Witness ==
  /\ last = Ret("connect", "Err:output already connected")
  /\ \E a \in OutEnds : IsConnected(OutSlot(a))

\* C11: run-state machine.  The run state changes only from Stopped to Started
\* by a start that returns Ok and from Started to Stopped by the return of
\* drain_and_stop; start on a Started Unit and drain_and_stop on a Stopped Unit
\* return an error and leave the run state, the three queues and the
\* processors as they were.
C11_RunStateMachine ==
  [][/\ state' # state =>
          \/ state = "Stopped" /\ state' = "Started" /\ last' = Ret("start", "Ok")
          \/ state = "Started" /\ state' = "Stopped" /\ last' = Ret("drain_and_stop", "Ok")
     /\ (started /\ Start) =>
          /\ last' = Ret("start", "Err:started")
          /\ UNCHANGED <<state, next, forward, backward, procs>>
     /\ (~started /\ DrainAndStop) =>
          /\ last' = Ret("drain_and_stop", "Err:stopped")
          /\ UNCHANGED <<state, next, forward, backward, procs>>]_vars

\* start has been refused on a Started Unit whose ready queue holds a processor
C11_Witness ==
  /\ last = Ret("start", "Err:started")
  /\ started
  /\ next # <<>>

\* C12: the topology is frozen while the Unit runs.  On a Started Unit every
\* call of add, connect or disconnect returns the started error and leaves the
\* processor list (so every connector and num_cons), the start set and the
\* ready queue as they were.
C12_FrozenWhileStarted ==
  [][(started /\ (Add \/ Connect \/ Disconnect)) =>
       /\ last'.ret = "Err:started"
       /\ UNCHANGED <<procs, start, next>>]_vars

\* a disconnect of a bound connection has been refused on a Started Unit
C12_Witness ==
  /\ last = Ret("disconnect", "Err:started")
  /\ started
  /\ \E a \in OutEnds : IsConnected(OutSlot(a))

\* the ids in q are distinct
NoDuplicates(q) == \A i, j \in 1..Len(q) : q[i] = q[j] => i = j

\* C13: start seeding.  start on a Stopped Unit sets the state to Started; when
\* the ready queue was empty the ready queue becomes the start list, in its
\* order, holding each processor without a bound input once and nothing else;
\* when it was not empty it is left as it was.
C13_StartSeeding ==
  [][(~started /\ Start) =>
       /\ state' = "Started"
       /\ last' = Ret("start", "Ok")
       /\ next = <<>> =>
            /\ next' = start
            /\ NoDuplicates(next')
            /\ \A p \in 0..(Len(procs) - 1) :
                 Contains(next', p) <=> BoundInputSlots(p) = {}
       /\ next # <<>> => next' = next]_vars

\* start has seeded the ready queue with the one start node of a Unit of two
\* processors, the other having a bound input
C13_Witness ==
  /\ last = Ret("start", "Ok")
  /\ next = start
  /\ Len(next) = 1
  /\ Len(procs) = 2

\* the job dispatch_next_forward is about to dispatch
Job == Head(forward)

\* the connections of the job that deliver into input block b of processor p
KIn(p, b) ==
  Cardinality({ i \in 1..Len(Job.cons) :
                  Job.cons[i].to.proc = p /\ Job.cons[i].to.block = b })

\* the connections of the job that drain output block b of processor p
KOut(p, b) ==
  Cardinality({ i \in 1..Len(Job.cons) :
                  Job.cons[i].from.proc = p /\ Job.cons[i].from.block = b })

\* the dispatch that is being made has queued processor p
Admitted(p) == \E i \in 1..Len(admits') : admits'[i].proc = p

\* the buffers after the dispatch of the job: every consumer buffer holds what
\* the producer buffer held, rewound and full, and every producer buffer is
\* empty
CopiedAndReset ==
  \A i \in 1..Len(Job.cons) :
    LET f == Job.cons[i].from
        t == Job.cons[i].to
    IN /\ procs'[t.proc + 1].inputs[t.block + 1].b.bufs[t.conn + 1]
            = [rdpos |-> 0, wrpos |-> BUFFER_LEN,
               buf |-> procs[f.proc + 1].outputs[f.block + 1].b.bufs[f.conn + 1].buf]
       /\ procs'[f.proc + 1].outputs[f.block + 1].b.bufs[f.conn + 1].rdpos = 0
       /\ procs'[f.proc + 1].outputs[f.block + 1].b.bufs[f.conn + 1].wrpos = 0

\* every output block has counted the connections of the job that drained it
EmptyCounted ==
  \A p \in 1..Len(procs) : \A b \in 1..Len(procs[p].outputs) :
    procs'[p].outputs[b].empty_cnt
      = Min(procs[p].outputs[b].empty_cnt + KOut(p - 1, b - 1), CntTop)

\* the buffer a Sine processor leaves in its output slot 0 the first time it
\* runs
FirstOutput == Process(NewProcessor("Sine")).outputs[1].b.bufs[1]

\* the calls so far were add, add, connect(a.out[0] -> b.in[0]), start,
\* process_next, and dispatch_next_forward is being called
Scenario(a, b) ==
  /\ calls = 5
  /\ Len(procs) = 2
  /\ started
  /\ last = RetArg("process_next", "Ok", a)
  /\ OutSlot(EndPoint(a, 0, 0))
       = ConnectedUsing(Connection(EndPoint(a, 0, 0), EndPoint(b, 0, 0)))
  /\ DispatchNextForward

ScenarioHolds ==
  \A a, b \in 0..1 :
    Scenario(a, b) =>
      /\ procs'[b + 1].inputs[1].b.bufs[1]
           = [rdpos |-> 0, wrpos |-> BUFFER_LEN, buf |-> FirstOutput.buf]
      /\ next' = <<b>>
      /\ Len(backward') = 1

ReturnedUnchanged ==
  /\ last'.ret = "Ok"
  /\ UNCHANGED <<procs, next, forward, backward, start, state>>

\* C15: the step functions are no-ops on empty queues.  process_next with an
\* empty ready queue, dispatch_next_forward with an empty forward queue and
\* dispatch_backward with an empty backward queue return without failing and
\* leave the processors, the three queues, the start set and the run state
\* as they were, whatever the run state is.
C15_EmptyQueueNoOps ==
  [][/\ (next = <<>> /\ ProcessNext) => ReturnedUnchanged
     /\ (forward = <<>> /\ DispatchNextForward) => ReturnedUnchanged
     /\ (backward = <<>> /\ DispatchBackward) => ReturnedUnchanged]_vars

\* process_next has returned from an empty ready queue on a Started Unit that
\* holds a connection and a queued forward job
C15_Witness ==
  /\ last = RetArg("process_next", "Ok", -1)
  /\ started
  /\ next = <<>>
  /\ forward # <<>>
  /\ \E a \in OutEnds : IsConnected(OutSlot(a))

\* the exact connection c: the output slot at c.from is bound to c.to and the
\* input slot at c.to is bound to c.from
Bound(c) ==
  /\ OutSlot(c.from) = ConnectedUsing(Connection(c.from, c.to))
  /\ InSlot(c.to) = ConnectedUsing(Connection(c.to, c.from))

OutBlock(e) == procs[e.proc + 1].outputs[e.block + 1]

InBlock(e) == procs[e.proc + 1].inputs[e.block + 1]

\* C16: disconnect on a Stopped Unit.  When the exact connection does not
\* exist (the output slot at c.from is unbound or bound to another peer, or
\* the input slot at c.to is) disconnect(c) fails and leaves every connector
\* and num_cons, the start set and the ready queue as they were: it returns
\* the error when c names two distinct processors of the Unit and blocks they
\* have, and fails fast otherwise.  When the connection exists disconnect(c)
\* returns Ok, both slots are unbound and both num_cons are one less.
C16_DisconnectExact ==
  [][\A c \in Connections(MaxProcs, MaxInBlock) :
       (~started /\ last'.op = "disconnect" /\ Call /\ DisconnectWith(c)) =>
         IF Bound(c)
         THEN /\ last'.ret = "Ok"
              /\ ~IsConnected(OutSlot(c.from)')
              /\ ~IsConnected(InSlot(c.to)')
              /\ OutBlock(c.from)'.b.num_cons = OutBlock(c.from).b.num_cons - 1
              /\ InBlock(c.to)'.b.num_cons = InBlock(c.to).b.num_cons - 1
         ELSE /\ last'.ret \in {"Err:doesn't exist", "panic"}
              /\ ValidCon(c) => last'.ret = "Err:doesn't exist"
              /\ UNCHANGED <<procs, start, next>>]_vars

\* a disconnect of a connection that does not exist has been refused on a
\* Stopped Unit that holds another connection
C16_Witness ==
  /\ last = Ret("disconnect", "Err:doesn't exist")
  /\ ~started
  /\ \E a \in OutEnds : IsConnected(OutSlot(a))

\* C17: drain_and_stop terminates.  On a Started Unit over an acyclic graph,
\* whatever the queues hold when it is called, drain_and_stop leaves its loop
\* after finitely many iterations with the ready queue empty and returns Ok
\* with the state Stopped.
C17_DrainTerminates ==
  [](pc = "draining" =>
       <>(/\ pc = "idle"
          /\ state = "Stopped"
          /\ next = <<>>
          /\ last = Ret("drain_and_stop", "Ok")))

\* drain_and_stop, called right after start, has returned after its loop ran
\* a producer and the consumer it fed: the backward job queued when the
\* consumer became ready is still there
C17_Witness ==
  /\ last = Ret("drain_and_stop", "Ok")
  /\ state = "Stopped"
  /\ NoCycle(procs)
  /\ \E a \in OutEnds : IsConnected(OutSlot(a))
  /\ calls = 1
  /\ forward = <<>>
  /\ Len(backward) = 1

\* no output slot is bound to an input of its own processor, and no input
\* slot to an output of its own processor
NoSelfConnection ==
  /\ \A a \in OutEnds : IsConnected(OutSlot(a)) => OutSlot(a).con.to.proc # a.proc
  /\ \A b \in InEnds : IsConnected(InSlot(b)) => InSlot(b).con.to.proc # b.proc

\* C18: self-connections are forbidden.  Unit.connect with
\* c.from.proc = c.to.proc fails (on a Stopped Unit through the panic of
\* get_refs, on a Started one through the state check before it) and leaves
\* every slot, every num_cons, the start set and the ready queue as they
\* were; no state reached through the calls of the Unit holds a connection
\* from a processor to itself.
C18_NoSelfConnection ==
  [][/\ \A c \in Connections(MaxProcs, MaxInBlock) :
          (c.from.proc = c.to.proc /\ last'.op = "connect" /\ Call /\ ConnectWith(c)) =>
            /\ last'.ret = IF started THEN "Err:started" ELSE "panic"
            /\ UNCHANGED <<procs, start, next>>
     /\ NoSelfConnection']_vars

\* connect of a processor of the Unit to itself has failed in get_refs, on a
\* Unit that holds a connection
C18_Witness ==
  /\ last = Ret("connect", "panic")
  /\ Len(procs) = 2
  /\ \E a \in OutEnds : IsConnected(OutSlot(a))

C20_BlockConnect ==
  [][\A c \in Connections(MaxProcs, MaxInBlock) :
       (~started /\ ValidCon(c) /\ last'.op = "connect" /\ Call /\ ConnectWith(c)) =>
         IF IsConnected(OutSlot(c.from))
         THEN /\ last'.ret = "Err:output already connected"
              /\ OutBlock(c.from)' = OutBlock(c.from)
         ELSE IF IsConnected(InSlot(c.to))
         THEN /\ last'.ret = "Err:input already connected"
              /\ InBlock(c.to)' = InBlock(c.to)
         ELSE /\ last'.ret = "Ok"
              /\ OutBlock(c.from)'.b.conns
                   = [OutBlock(c.from).b.conns EXCEPT ![c.from.conn + 1] =
                        ConnectedUsing(Connection(c.from, c.to))]
              /\ OutBlock(c.from)'.b.num_cons = OutBlock(c.from).b.num_cons + 1
              /\ InBlock(c.to)'.b.conns
                   = [InBlock(c.to).b.conns EXCEPT ![c.to.conn + 1] =
                        ConnectedUsing(Connection(c.to, c.from))]
              /\ InBlock(c.to)'.b.num_cons = InBlock(c.to).b.num_cons + 1]_vars

\* a connect has bound the second slot of an output block
C20_Witness ==
  /\ last = Ret("connect", "Ok")
  /\ \E p \in 1..Len(procs) :
       /\ procs[p].outputs # <<>>
       /\ procs[p].outputs[1].b.num_cons = 2
       /\ \A i \in 1..BLOCK_LEN : IsConnected(procs[p].outputs[1].b.conns[i])

\* the slots of blk in the ConnectedUsing state
BoundSlots(blk) == { i \in 1..BLOCK_LEN : IsConnected(blk.b.conns[i]) }

\* the return of the call just made on the block
BlockRet == ops'[Len(ops')].val

\* C21: num_cons counts the bound slots.  After any calls of connect and
\* disconnect on a block, successful or failed, num_cons is the number of its
\* slots in the ConnectedUsing state and lies in 0..BLOCK_LEN; disconnect of
\* an unbound slot returns the not-connected error and leaves the block, its
\* num_cons included, as it was.
C21_NumConsCounts ==
  [][/\ block'.b.num_cons = Cardinality(BoundSlots(block'))
     /\ block'.b.num_cons \in 0..BLOCK_LEN
     /\ \A idx \in 0..(BLOCK_LEN - 1) :
          (BlockDisconnectAt(idx) /\ ~IsConnected(block.b.conns[idx + 1])) =>
            /\ BlockRet = "Err:not connected"
            /\ block' = block]_vars

\* a disconnect of an unbound slot has been refused on a block whose other
\* slot is bound, after an earlier disconnect succeeded
C21_Witness ==
  /\ Len(ops) >= 3
  /\ ops[Len(ops)] = OpVal("disconnect", "Err:not connected")
  /\ \E i \in 1..(Len(ops) - 1) : ops[i] = OpVal("disconnect", "Ok")
  /\ block.b.num_cons = 1

\* C22: buffer cursor invariant.  After any calls of put, next, fill, rewind,
\* reset and copy_from on a buffer created empty,
\* 0 <= rdpos <= wrpos <= BUFFER_LEN.
C22_CursorInvariant ==
  /\ 0 <= buffer.rdpos
  /\ buffer.rdpos <= buffer.wrpos
  /\ buffer.wrpos <= BUFFER_LEN

\* a next() has been called on a partly written buffer whose samples had all
\* been read: the cursors are equal and strictly inside the buffer
C22_Witness ==
  /\ Len(ops) >= 3
  /\ ops[Len(ops)].op = "next"
  /\ ops[Len(ops) - 1].op = "next"
  /\ buffer.rdpos = buffer.wrpos
  /\ buffer.wrpos = 1

\* the calls so far were n puts followed only by calls of next
PutsThenNexts(n) ==
  /\ n <= Len(ops)
  /\ \A i \in 1..Len(ops) : ops[i].op = IF i <= n THEN "put" ELSE "next"

\* C23: hold-last-value.  On a buffer created empty, after N puts
\* (N <= BUFFER_LEN) wrpos = N, and the calls of next that follow return the
\* N samples in the order they were written and then the last one again for
\* every further call, rdpos counting the reads up to N and no further; with
\* nothing written every next returns the zero sample.
C23_HoldLastValue ==
  \A n \in 0..BUFFER_LEN :
    PutsThenNexts(n) =>
      /\ buffer.wrpos = n
      /\ buffer.rdpos = Min(Len(ops) - n, n)
      /\ \A j \in 1..(Len(ops) - n) :
           ops[n + j].val = IF n = 0 THEN ZeroSample ELSE ops[Min(j, n)].val

\* two different samples were put and next was called three times: the third
\* read repeats the second sample
C23_Witness ==
  /\ Len(ops) = 5
  /\ PutsThenNexts(2)
  /\ ops[1].val # ops[2].val
  /\ ops[5].val = ops[2].val

\* C24: put.  put(v) on a full buffer (wrpos = BUFFER_LEN) replaces the sample
\* of the last slot by v and leaves wrpos, rdpos and every other slot as they
\* were; on a buffer that is not full it stores v in the slot at wrpos and
\* adds one to wrpos, leaving rdpos and every other slot as they were.
C24_Put ==
  [][\A v \in Samples :
       BufferPutOf(v) =>
         /\ buffer'.rdpos = buffer.rdpos
         /\ IF buffer.wrpos = BUFFER_LEN
            THEN /\ buffer'.wrpos = buffer.wrpos
                 /\ \A i \in 1..BUFFER_LEN :
                      buffer'.buf[i] = IF i = BUFFER_LEN THEN v ELSE buffer.buf[i]
            ELSE /\ buffer'.wrpos = buffer.wrpos + 1
                 /\ \A i \in 1..BUFFER_LEN :
                      buffer'.buf[i] = IF i = buffer.wrpos + 1 THEN v
                                       ELSE buffer.buf[i]]_vars

\* a full buffer of which one sample had been read has taken another put: the
\* last slot holds the new sample, the first slot the one put first
C24_Witness ==
  /\ Len(ops) >= 4
  /\ ops[Len(ops)].op = "put"
  /\ ops[1].op = "put"
  /\ buffer.wrpos = BUFFER_LEN
  /\ buffer.rdpos = 1
  /\ buffer.buf[BUFFER_LEN] = ops[Len(ops)].val
  /\ buffer.buf[1] = ops[1].val
  /\ buffer.buf[1] # buffer.buf[BUFFER_LEN]
  /\ \A i \in 1..Len(ops) : ops[i].op \in {"put", "next"}
  /\ Cardinality({ i \in 1..Len(ops) : ops[i].op = "put" }) > BUFFER_LEN

\* the buffer m calls of next leave behind
RECURSIVE AfterReads(_, _)
AfterReads(b, m) == IF m = 0 THEN b ELSE AfterReads(Buffer_next(b), m - 1)

\* the samples m calls of next return
RECURSIVE ReadVals(_, _)
ReadVals(b, m) ==
  IF m = 0 THEN <<>> ELSE <<Buffer_next_val(b)>> \o ReadVals(Buffer_next(b), m - 1)

\* since a fill(v) only next and rewind were called, and every next returned v
FillThenReads ==
  \A k \in 1..Len(ops) :
    (ops[k].op = "fill" /\ \A i \in (k + 1)..Len(ops) : ops[i].op \in {"next", "rewind"})
      => \A i \in (k + 1)..Len(ops) : ops[i].op = "next" => ops[i].val = ops[k].val

\* from a buffer about to be read from its start, m reads, a rewind and m
\* reads again return the same samples as the first m reads
RereadSame ==
  buffer.rdpos = 0 =>
    \A m \in 1..(BUFFER_LEN + 1) :
      ReadVals(Buffer_rewind(AfterReads(buffer, m)), m) = ReadVals(buffer, m)

\* C25: fill and rewind.  fill(v) sets rdpos = 0 and wrpos = BUFFER_LEN, and
\* every next called afterwards, with any calls of rewind in between, returns
\* v; rewind sets rdpos to 0 and leaves wrpos and the samples as they were, so
\* that reading again returns what the first reading returned.
C25_FillRewind ==
  [][/\ \A v \in Samples :
          BufferFillOf(v) => (buffer'.rdpos = 0 /\ buffer'.wrpos = BUFFER_LEN)
     /\ BufferRewind =>
          /\ buffer'.rdpos = 0
          /\ buffer'.wrpos = buffer.wrpos
          /\ buffer'.buf = buffer.buf
     /\ FillThenReads'
     /\ RereadSame']_vars

\* after a put of another sample, fill was called, then next, rewind and
\* next: both reads returned the sample of the fill
C25_Witness ==
  /\ Len(ops) = 5
  /\ ops[1].op = "put"
  /\ ops[2].op = "fill"
  /\ ops[1].val # ops[2].val
  /\ ops[3] = OpVal("next", ops[2].val)
  /\ ops[4].op = "rewind"
  /\ ops[5] = OpVal("next", ops[2].val)
  /\ buffer.rdpos = 1

\* since the reset at k only next and rewind were called
OnlyReadsSince(k, n) == \A i \in (k + 1)..n : ops[i].op \in {"next", "rewind"}

\* every next called after a reset and before any put returned the zero
\* sample, and the first put after a reset wrote slot 0
AfterReset ==
  \A k \in 1..Len(ops) :
    ops[k].op = "reset" =>
      /\ OnlyReadsSince(k, Len(ops)) =>
           \A i \in (k + 1)..Len(ops) : ops[i].op = "next" => ops[i].val = ZeroSample
      /\ (ops[Len(ops)].op = "put" /\ OnlyReadsSince(k, Len(ops) - 1) /\ k < Len(ops)) =>
           /\ buffer.buf[1] = ops[Len(ops)].val
           /\ buffer.wrpos = 1

\* C26: reset.  reset() from any buffer state sets rdpos = 0 and wrpos = 0, so
\* that empty() is true; a next called before any put returns the zero sample
\* and not a sample written earlier, and the next put writes at position 0.
C26_Reset ==
  [][/\ BufferReset =>
          /\ buffer'.rdpos = 0
          /\ buffer'.wrpos = 0
          /\ Buffer_empty(buffer')
     /\ AfterReset']_vars

\* a buffer filled with a sample and read once was reset; the next that
\* followed returned the zero sample and the put after it wrote slot 0
C26_Witness ==
  /\ Len(ops) = 5
  /\ ops[1].op = "fill"
  /\ ops[2].op = "next"
  /\ ops[3].op = "reset"
  /\ ops[4] = OpVal("next", ZeroSample)
  /\ ops[5].op = "put"
  /\ ops[5].val # ops[1].val
  /\ buffer.buf[1] = ops[5].val
  /\ buffer.buf[BUFFER_LEN] = ops[1].val

\* since the last copy_from only next was called, and the reads returned the
\* slots of the source in order, written by the source or not, then the last
\* slot again
ReadsOfCopy ==
  \A k \in 1..Len(ops) :
    (ops[k].op = "copy_from" /\ \A i \in (k + 1)..Len(ops) : ops[i].op = "next")
      => \A j \in 1..(Len(ops) - k) : ops[k + j].val = other.buf[Min(j, BUFFER_LEN)]

\* C27: copy_from.  copy_from(other) replaces every slot of the destination
\* by the sample of the same slot of other and leaves the destination with
\* rdpos = 0 and wrpos = BUFFER_LEN whatever the cursors of other were, other
\* being empty or partly written included; the samples and cursors of other
\* are as they were.
C27_CopyFrom ==
  [][/\ \A o \in Others :
          BufferCopyFromOf(o) =>
            /\ \A i \in 1..BUFFER_LEN : buffer'.buf[i] = o.buf[i]
            /\ buffer'.rdpos = 0
            /\ buffer'.wrpos = BUFFER_LEN
            /\ other' = o
     /\ ReadsOfCopy']_vars

\* a filled buffer has copied from a source with one sample written and none
\* read; two reads returned that sample and then the zero sample of the slot
\* the source never wrote
C27_Witness ==
  /\ Len(ops) = 4
  /\ ops[1].op = "fill"
  /\ ops[2].op = "copy_from"
  /\ other = Buffer_put(BufferDefault, 1)
  /\ ops[3] = OpVal("next", 1)
  /\ ops[4] = OpVal("next", ZeroSample)
  /\ buffer.rdpos = BUFFER_LEN

\* the Connections stored in the bound output slots of processor p
BoundOutputs(p) ==
  { OutSlot(a).con : a \in { e \in OutEnds : e.proc = p /\ IsConnected(OutSlot(e)) } }

\* C28: process_next.  A call of process_next with a non-empty ready queue
\* pops the front id and nothing else, runs the compute step of that
\* processor once and leaves the other processors alone, and appends one
\* forward job tagged with that id that holds each bound output connection of
\* the processor once and nothing else (no connection when it has none); the
\* backward queue and the rest of the ready queue are as they were.
C28_ProcessNext ==
  [][(next # <<>> /\ ProcessNext) =>
       LET p == Head(next)
           job == forward'[Len(forward')]
       IN /\ next' = Tail(next)
          /\ backward' = backward
          /\ procs' = [procs EXCEPT ![p + 1] = Process(procs[p + 1])]
          /\ Len(forward') = Len(forward) + 1
          /\ SubSeq(forward', 1, Len(forward)) = forward
          /\ job.proc = p
          /\ { job.cons[i] : i \in 1..Len(job.cons) } = BoundOutputs(p)
          /\ Len(job.cons) = Cardinality(BoundOutputs(p))]_vars

\* process_next has run a processor with two bound outputs on a Started Unit
\* and queued the job of its two connections
C28_Witness ==
  /\ last.op = "process_next"
  /\ last.arg >= 0
  /\ started
  /\ forward # <<>>
  /\ forward[Len(forward)].proc = last.arg
  /\ Len(forward[Len(forward)].cons) = 2

\* the full_cnt of every input block of every processor
FullCnts(ps) ==
  [p \in 1..Len(ps) |-> [b \in 1..Len(ps[p].inputs) |-> ps[p].inputs[b].full_cnt]]

\* the counts fc after the copy of connection con
Counted(fc, con) ==
  [fc EXCEPT ![con.to.proc + 1][con.to.block + 1] = Min(@ + 1, CntTop)]

\* every input block of processor t has full_cnt = num_cons
AllFull(fc, t) ==
  \A b \in 1..Len(procs[t + 1].inputs) : fc[t + 1][b] = procs[t + 1].inputs[b].b.num_cons

\* the counts after the connections cons have been copied one after the
\* other, the counts of a consumer going back to 0 each time all are full
RECURSIVE CountsAfter(_, _)
CountsAfter(fc, cons) ==
  IF cons = <<>> THEN fc
  ELSE LET fc1 == Counted(fc, Head(cons))
           t == Head(cons).to.proc
       IN CountsAfter(IF AllFull(fc1, t)
                      THEN [fc1 EXCEPT ![t + 1] = [b \in DOMAIN @ |-> 0]]
                      ELSE fc1,
                      Tail(cons))

\* the consumers found full, in the order of the connections that filled them
RECURSIVE Admissions(_, _)
Admissions(fc, cons) ==
  IF cons = <<>> THEN <<>>
  ELSE LET fc1 == Counted(fc, Head(cons))
           t == Head(cons).to.proc
       IN (IF AllFull(fc1, t) THEN <<t>> ELSE <<>>)
            \o Admissions(CountsAfter(fc, <<Head(cons)>>), Tail(cons))

\* C29: admission on full inputs.  During dispatch_next_forward, after the
\* copy of each connection, if every input block of the consumer has
\* full_cnt = num_cons, the full_cnt of all its input blocks are reset to 0,
\* its id is appended once to the ready queue and one backward job, tagged
\* with its id, is appended to the backward queue; otherwise that connection
\* changes neither queue.
C29_AdmissionOnFull ==
  [][(forward # <<>> /\ DispatchNextForward) =>
       LET adm == Admissions(FullCnts(procs), Job.cons)
       IN /\ next' = next \o adm
          /\ Len(backward') = Len(backward) + Len(adm)
          /\ SubSeq(backward', 1, Len(backward)) = backward
          /\ \A i \in 1..Len(adm) : backward'[Len(backward) + i].proc = adm[i]
          /\ FullCnts(procs') = CountsAfter(FullCnts(procs), Job.cons)]_vars

\* a dispatch has copied into input block 0 of a consumer that also has a
\* bound slot in input block 1: block 0 is full, block 1 is not, and the
\* consumer was not queued
C29_Witness ==
  /\ last = Ret("dispatch_next_forward", "Ok")
  /\ admits = <<>>
  /\ next = <<>>
  /\ backward = <<>>
  /\ \E p \in 1..Len(procs) :
       /\ Len(procs[p].inputs) >= 2
       /\ procs[p].inputs[1].b.num_cons = 1
       /\ procs[p].inputs[1].full_cnt = 1
       /\ procs[p].inputs[2].b.num_cons = 1
       /\ procs[p].inputs[2].full_cnt = 0

\* the ids the call being made has appended to the ready queue
Pushed == SubSeq(next', Len(next) + 1, Len(next'))

\* every output block of processor p has empty_cnt = num_cons
AllEmpty(p) ==
  \A b \in 1..Len(procs[p + 1].outputs) :
    procs[p + 1].outputs[b].empty_cnt = procs[p + 1].outputs[b].b.num_cons

\* the producers named by the connections of the pending backward jobs
SweptProducers ==
  { backward[j].cons[i].from.proc :
      <<j, i>> \in { x \in (1..Len(backward)) \X (1..(2 * BLOCK_LEN)) :
                       x[2] <= Len(backward[x[1]].cons) } }

\* C30: dispatch_backward.  A call of dispatch_backward handles every pending
\* backward job and leaves the backward queue empty; it appends to the ready
\* queue only processors named by the jobs that are in the start set and had
\* empty_cnt = num_cons on every output block, and it resets the empty_cnt of
\* those to 0; a producer outside the start set is never appended, and one
\* call appends a given start node at most once.
C30_DispatchBackward ==
  [][(calls' = calls + 1 /\ last' = RetArg("dispatch_backward", "Ok", -1)) =>
       /\ backward' = <<>>
       /\ Len(next') >= Len(next)
       /\ SubSeq(next', 1, Len(next)) = next
       /\ \A i \in 1..Len(Pushed) :
            /\ Pushed[i] \in SweptProducers
            /\ Contains(start, Pushed[i])
            /\ AllEmpty(Pushed[i])
            /\ \A b \in 1..Len(procs'[Pushed[i] + 1].outputs) :
                 procs'[Pushed[i] + 1].outputs[b].empty_cnt = 0
       /\ NoDuplicates(Pushed)]_vars

\* the bound output connections of processor q, as a set
OutConSet(q) ==
  { procs[q + 1].outputs[b].b.conns[s].con :
      <<b, s>> \in { x \in (1..Len(procs[q + 1].outputs)) \X (1..BLOCK_LEN) :
                       IsConnected(procs[q + 1].outputs[x[1]].b.conns[x[2]]) } }

\* the processors with an output wire into processor p
FeedersOf(p) ==
  { q \in 0..(Len(procs) - 1) : \E con \in OutConSet(q) : con.to.proc = p }

\* C31: backward-job construction.  Every backward job queued by a forward
\* dispatch is tagged with the consumer that was just appended to the ready
\* queue and holds exactly the bound output connections of the processors
\* feeding that consumer, each connection once: a feeder wired to the consumer
\* through several slots contributes its connections once, and its connections
\* to other consumers are included.
C31_BackDispatch ==
  [][TurnDispatchNextForward =>
       \A i \in 1..(Len(backward') - Len(backward)) :
         LET job == backward'[Len(backward) + i]
         IN /\ Len(next') >= Len(next) + i
            /\ job.proc = next'[Len(next) + i]
            /\ { job.cons[k] : k \in 1..Len(job.cons) } =
                 UNION { OutConSet(q) : q \in FeedersOf(job.proc) }
            /\ NoDuplicates(job.cons)]_vars

\* a backward job has just been queued for a consumer fed through two slots by
\* one feeder, or for a consumer whose feeder is also wired to another consumer
C31_Witness ==
  /\ last.op = "dispatch_next_forward"
  /\ backward # <<>>
  /\ LET job == backward[Len(backward)]
     IN /\ Len(job.cons) = 2
        /\ job.cons[1].from.proc = job.cons[2].from.proc
        /\ job.cons[1].to.proc = job.proc
        /\ job.cons[2].to.proc # job.proc

\* a backward job has just been queued for a consumer that one feeder feeds
\* through two input slots
C31_WitnessTwoSlots ==
  /\ last.op = "dispatch_next_forward"
  /\ backward # <<>>
  /\ LET job == backward[Len(backward)]
     IN /\ Len(job.cons) = 2
        /\ job.cons[1].from.proc = job.cons[2].from.proc
        /\ job.cons[1].to.proc = job.proc
        /\ job.cons[2].to.proc = job.proc

\* q2 is q with entries appended at the back
Extends(q, q2) == Len(q2) >= Len(q) /\ SubSeq(q2, 1, Len(q)) = q

\* q2 is q without its front entry, with entries appended at the back
PopsFront(q, q2) == q # <<>> /\ Extends(Tail(q), q2)

\* q2 is q without one of its entries, the others in their order
DropsOne(q, q2) ==
  \E k \in 1..Len(q) : q2 = SubSeq(q, 1, k - 1) \o SubSeq(q, k + 1, Len(q))

\* the producers named by the pending backward jobs, job by job in queue
\* order and connection by connection
RECURSIVE SweepOrder(_)
SweepOrder(jobs) ==
  IF jobs = <<>> THEN <<>>
  ELSE [i \in 1..Len(Head(jobs).cons) |-> Head(jobs).cons[i].from.proc]
         \o SweepOrder(Tail(jobs))

\* the call op is being made
Called(op) == calls' = calls + 1 /\ last'.op = op

\* a backward sweep is being made, by dispatch_backward or at the entry of
\* drain_and_stop
Sweeping ==
  \/ Called("dispatch_backward")
  \/ Called("drain_and_stop") /\ last'.ret = "running"

\* C32: strict FIFOs.  Every call takes entries from the front of a queue and
\* adds entries at its back: process_next runs the front id of the ready queue
\* and queues its forward job last; dispatch_next_forward dispatches the front
\* forward job; a backward sweep handles the backward jobs from the front to
\* the back, connection by connection, so the ids it appends are in the order
\* in which the jobs name them.  Only connect takes an id out of the middle
\* of the ready queue.
C32_StrictFIFO ==
  [][/\ \/ Extends(next, next')
        \/ PopsFront(next, next')
        \/ last'.op = "connect" /\ DropsOne(next, next')
     /\ Extends(forward, forward') \/ PopsFront(forward, forward')
     /\ Extends(backward, backward') \/ backward' = <<>>
     /\ (Called("process_next") /\ next # <<>>) =>
          /\ last'.arg = Head(next)
          /\ next' = Tail(next)
          /\ forward' = Append(forward, forward'[Len(forward')])
          /\ forward'[Len(forward')].proc = Head(next)
     /\ (Called("dispatch_next_forward") /\ forward # <<>>) =>
          /\ forward' = Tail(forward)
          /\ FullCnts(procs') = CountsAfter(FullCnts(procs), Head(forward).cons)
     /\ Sweeping =>
          /\ backward' = <<>>
          /\ Extends(next, next')
          /\ \A i, j \in 1..Len(Pushed) :
               (i < j /\ Pushed[i] # Pushed[j]) =>
                 position(SweepOrder(backward), Pushed[i], 1)
                   < position(SweepOrder(backward), Pushed[j], 1)]_vars

\* process_next has run the processor at the front of a ready queue holding
\* two different ids, while a forward job was already waiting: the other id
\* is still queued and the new job is behind the old one
C32_Witness ==
  /\ last.op = "process_next"
  /\ last.arg >= 0
  /\ Len(next) = 1
  /\ next[1] # last.arg
  /\ Len(forward) = 2
  /\ forward[2].proc = last.arg
  /\ forward[1].proc # last.arg

\* a sweep has appended two different start nodes to a ready queue that was
\* not empty
C32_WitnessSweep ==
  /\ backward = <<>>
  /\ last.op \in {"dispatch_backward", "drain_and_stop"}
  /\ Len(next) = 3
  /\ next[2] # next[3]
  /\ Contains(start, next[2])
  /\ Contains(start, next[3])
  /\ ~Contains(start, next[1])

\* q without the entries equal to x, the others in their order
RECURSIVE Without(_, _)
Without(q, x) ==
  IF q = <<>> THEN <<>>
  ELSE (IF Head(q) = x THEN <<>> ELSE <<Head(q)>>) \o Without(Tail(q), x)

\* the processor whose input connectors the call being made has changed
Destination ==
  CHOOSE p \in 0..(Len(procs) - 1) : procs'[p + 1].inputs # procs[p + 1].inputs

\* C33: connect and the start set.  After every successful connect the
\* destination processor is neither in the start set nor anywhere in the
\* ready queue, and the entries of every other processor in the start set and
\* in the ready queue are as they were.
C33_ConnectRemoves ==
  [][(Called("connect") /\ last'.ret = "Ok") =>
       /\ ~Contains(start', Destination)
       /\ ~Contains(next', Destination)
       /\ start' = Without(start, Destination)
       /\ next' = Without(next, Destination)]_vars

\* the call of distribute being made: its map, its closure, and the source
\* index of destination d
DistMap == ops'[Len(ops')].val[1]

DistF == ops'[Len(ops')].val[2]

SrcOf(d) == DistMap[(d % Len(DistMap)) + 1]

\* C34: distribute.  A call distribute(bufs, map, f) leaves every buffer whose
\* source index map[dst mod len(map)] is its own index as it was; every other
\* buffer dst gets rdpos = 0, wrpos = BUFFER_LEN and in every slot f(old
\* sample of dst, sample of src), where the sample of src is the one the call
\* has already written when src < dst and the one src had before the call
\* when src > dst.
C34_Distribute ==
  [][Len(ops') = Len(ops) + 1 =>
       \A d \in 0..(NumBufs - 1) :
         IF SrcOf(d) = d
         THEN bufs'[d + 1] = bufs[d + 1]
         ELSE /\ bufs'[d + 1].rdpos = 0
              /\ bufs'[d + 1].wrpos = BUFFER_LEN
              /\ \A i \in 1..BUFFER_LEN :
                   bufs'[d + 1].buf[i] =
                     ApplyF(DistF, bufs[d + 1].buf[i],
                            IF SrcOf(d) < d THEN bufs'[SrcOf(d) + 1].buf[i]
                                            ELSE bufs[SrcOf(d) + 1].buf[i])]_vars

\* distribute with the map [1, 2] and the closure |_, b| b has been called on
\* three buffers filled with 1, 2 and a third value: buffer 0 holds the 2s of
\* buffer 1, buffers 1 and 2 hold the samples buffer 2 had
C34_Witness ==
  /\ Len(ops) = 1
  /\ ops[1].val = << <<1, 2>>, "src" >>
  /\ bufs[1].buf = [i \in 1..BUFFER_LEN |-> 2]
  /\ bufs[2].buf = [i \in 1..BUFFER_LEN |-> 3]
  /\ bufs[3] = [rdpos |-> 0, wrpos |-> BUFFER_LEN, buf |-> [i \in 1..BUFFER_LEN |-> 3]]

\* processor p has a bound input slot
HasBoundInput(p) ==
  \E b \in 1..Len(procs[p + 1].inputs) : procs[p + 1].inputs[b].b.num_cons > 0

\* C35: inputs are not overwritten before they are consumed.  In a Started
\* Unit on an acyclic graph driven by scheduling turns, while a processor with
\* bound inputs waits in the ready queue (it was appended by a forward
\* dispatch and has not been run yet), no forward dispatch writes into any of
\* its input buffers or changes any of its full_cnt.
C35_InputsKept ==
  [][TurnDispatchNextForward =>
       \A k \in 1..Len(next) :
         HasBoundInput(next[k]) =>
           procs'[next[k] + 1].inputs = procs[next[k] + 1].inputs]_vars

\* the number of entries of q equal to x
Count(q, x) == Cardinality({ i \in 1..Len(q) : q[i] = x })

\* C36: start after building.  After any sequence of add, connect and
\* disconnect on a Stopped Unit, a successful start leaves every processor of
\* the start set in the ready queue exactly once and no other processor in it.
C36_StartSeedsAll ==
  [][(BuildStart /\ last'.ret = "Ok") =>
       \A p \in 0..(Len(procs) - 1) :
         Count(next', p) = IF Contains(start', p) THEN 1 ELSE 0]_vars

\* C37: restart keeps streaming.  In a Unit that was started, driven, stopped
\* with drain_and_stop and started again, the driver loop repeated for ever
\* runs every start node with a bound output again and again, as after the
\* first start.
C37_RestartStreams ==
  \A p \in 0..(MaxRestartProcs - 1) :
    []((calls = 2 /\ Source(p)) => <>(last = RetArg("process_next", "Ok", p)))

\* C38: clean counters after drain_and_stop.  Immediately after a successful
\* drain_and_stop every input block of every processor has full_cnt = 0 and
\* every output block has empty_cnt = 0.
C38_CleanCounters ==
  last = Ret("drain_and_stop", "Ok") =>
    \A p \in 1..Len(procs) :
      /\ \A b \in 1..Len(procs[p].inputs) : procs[p].inputs[b].full_cnt = 0
      /\ \A b \in 1..Len(procs[p].outputs) : procs[p].outputs[b].empty_cnt = 0

\* every processor that reaches p through bound connections and has no bound
\* input is a start node: the inputs of p are fed, directly or through other
\* processors, by start nodes
FedByStart(p) ==
  \A q \in 0..(Len(procs) - 1) :
    (Reaches(procs, q, p) /\ ~HasBoundInput(q)) => Contains(start, q)

\* p (0-based id) is a consumer of the started Unit: it has a bound input and
\* all its bound inputs are fed by start nodes
Consumer(p) ==
  /\ started
  /\ p < Len(procs)
  /\ HasBoundInput(p)
  /\ FedByStart(p)

\* C39: no starvation.  Under the driver loop repeated for ever on an acyclic
\* graph, every processor with bound inputs, all fed directly or transitively
\* by start nodes, is run again and again: whenever it is such a consumer,
\* process_next runs it at that moment or later.
C39_NoStarvation ==
  \A p \in 0..(MaxStreamProcs - 1) :
    [](Consumer(p) => <>(last = RetArg("process_next", "Ok", p)))

\* C40: no double admission.  In a Unit built through add, connect and
\* disconnect, started, and driven by scheduling turns on an acyclic graph, no
\* processor id is in the ready queue more than once at the same time.
C40_NoDoubleAdmission == (started /\ acyclic) => NoDuplicates(next)

\* a sweep has just re-admitted a start node behind a consumer that is still
\* waiting in the ready queue
C40_Witness ==
  /\ started
  /\ last = RetArg("dispatch_backward", "Ok", -1)
  /\ Len(next) >= 2
  /\ Contains(start, next[Len(next)])
  /\ \E i \in 1..(Len(next) - 1) : ~Contains(start, next[i])

====
